---- MODULE Spec2Model ----
(***************************************************************************)
(* Shared-memory ring buffer of src/ipc/shared_ring.cpp: a POSIX shared    *)
(* memory object holding a RingHeader and slot_count slots of              *)
(* 4 + slot_size bytes, coordinated by three named semaphores (free,       *)
(* filled, mutex).  Each process step is one system call or one access to  *)
(* the mapped region.                                                      *)
(***************************************************************************)
EXTENDS Integers, Sequences, FiniteSets, TLC

(***************************************************************************)
(* Bounds of the model.                                                    *)
(***************************************************************************)
MaxSlotCount == 2     \* slot_count N ranges over 1..MaxSlotCount
MaxSlotSize == 1      \* slot_size S ranges over 0..MaxSlotSize
MaxWrites == 3        \* write_message calls the producer makes
MaxRequests == 3      \* datagrams the clients send to ipc_daemon
QueueLen == 1         \* datagrams a client socket queues before a sender waits
MaxFails == 1         \* semaphore waits that fail
MaxIntr == 1          \* semaphore waits a signal interrupts
MaxOpens == 2         \* create_or_open(create = false) calls a consumer fails in a row

(***************************************************************************)
(* Program constants.                                                      *)
(***************************************************************************)
HeaderSize == 52      \* sizeof(RingHeader): 6 * uint32_t + reserved[28]
LenPrefix == 4        \* sizeof(uint32_t), the length prefix of a slot
Magic == "0xA1B2C3D4"     \* the sentinel init_map writes and checks
ZeroMagic == "0x00000000" \* the magic field of a zero-filled region
Version == 1
SemRetries == 20      \* attempts of the semaphore-open loop of create_or_open
AttachRetries == 20   \* attempts of the consumer's create_or_open loop
ConsumerSlotCount == 1  \* slot_count the consumer passes to create_or_open
ConsumerSlotSize == 1   \* slot_size the consumer passes to create_or_open

Producer == "P"          \* the process that creates the ring and writes
Intruder == "X"          \* a process that creates the same name again
AllConsumers == {"C1", "C2"}
Procs == {Producer, Intruder} \cup AllConsumers

VARIABLES
    shm,        \* the shared memory object behind the ring name
    sems,       \* the three named semaphores
    handle,     \* per process: the fields of its SharedRing object
    pc,         \* per process: position in the code
    loc,        \* per process: locals of the running call and its result
    consumers,  \* the consumer processes that take part
    written,    \* history: payloads stored by write_message, in order
    wrote,      \* history: payloads of the write_message calls that returned true
    delivered,  \* history: [who, seq, nw, data] of each read that returned true
    calls,      \* number of write_message calls the producer has started
    budget,     \* number of write_message calls the producer will make
    co,         \* per process: progress of its create_or_open call(s)
    snap,       \* history: the region as a create on an existing name found it
    unlinked,   \* history: the processes that have called unlink_resources
    failed,     \* history: the semaphore waits that failed and what they held
    registry,   \* ipc_daemon: service key -> the ClientInfo records, in order
    dq,         \* datagrams queued on the socket of ipc_daemon
    inbox,      \* per client socket: the datagrams queued on it
    bk,         \* ipc_daemon: position in its loop and the locals of a REGISTER
    handled,    \* history: each datagram ipc_daemon received and its sendto calls
    bound,      \* the client sockets that are bound
    cst,        \* per client: position in its code
    sent,       \* number of requests the clients have sent
    named,      \* per ring: the name given to create_or_open and the names derived
    twin,       \* one write_message or read_message call made by both SharedRings
    circ,       \* the CircularBuffer of the multithreaded program
    thr         \* its two threads: loop counters and the values popped

vars ==
    <<shm, sems, handle, pc, loc, consumers, written, wrote, delivered, calls,
      budget, co, snap, unlinked, failed, registry, dq, inbox, bk, handled,
      bound, cst, sent, named, twin, circ, thr>>

\* the state outside the ring and the daemon: the names derived for two ring
\* names, the two SharedRing implementations side by side, and the
\* multithreaded CircularBuffer program
libVars == <<named, twin, circ, thr>>

\* the state of the discovery daemon and of its clients' sockets
brokerVars == <<registry, dq, inbox, bk, handled, bound, cst, sent>>

\* the state of the ring and of the processes that use it
ringVars ==
    <<shm, sems, handle, pc, loc, consumers, written, wrote, delivered, calls,
      budget, co, snap, unlinked, failed>>

\* what write_message and read_message never touch
frame ==
    <<handle, consumers, budget, co, snap, unlinked, failed, brokerVars,
      libVars>>

(***************************************************************************)
(* Byte-level helpers.                                                     *)
(***************************************************************************)
Zeros(n) == [i \in 1..n |-> 0]

\* memcpy(slot, &len, sizeof(uint32_t)) on a little-endian build
LenBytes(len) ==
    << len % 256, (len \div 256) % 256,
       (len \div 65536) % 256, (len \div 16777216) % 256 >>

\* memcpy(&len, slot, sizeof(uint32_t))
DecodeLen(b) == b[1] + 256 * b[2] + 65536 * b[3] + 16777216 * b[4]

\* bytes off+1 .. off+n of the slot area (off is a 0-based byte offset)
Bytes(mem, off, n) == [i \in 1..n |-> mem[off + i]]

\* the slot area with src copied to offset off
Poke(mem, off, src) ==
    [i \in 1..Len(mem) |->
        IF i > off /\ i <= off + Len(src) THEN src[i - off] ELSE mem[i]]

\* ftruncate: the slot area cut, or extended with zero bytes, to n bytes
Resize(mem, n) == [i \in 1..n |-> IF i <= Len(mem) THEN mem[i] ELSE 0]

Min(a, b) == IF a <= b THEN a ELSE b

\* header_sz + slot_count * (sizeof(uint32_t) + slot_size)
MapSize(n, s) == HeaderSize + n * (LenPrefix + s)

\* slot - slots_start_ = idx * (sizeof(uint32_t) + slot_size_)
SlotOffset(i, s) == i * (LenPrefix + s)

(***************************************************************************)
(* The objects create_or_open(create = true) leaves behind on a fresh name *)
(***************************************************************************)
FreshHeader(n, s) ==
    [magic |-> Magic, version |-> Version, slot_count |-> n,
     slot_size |-> s, head |-> 0, tail |-> 0]

FreshShm(n, s) ==
    [exists |-> TRUE, size |-> MapSize(n, s), hdr |-> FreshHeader(n, s),
     slots |-> Zeros(n * (LenPrefix + s))]

\* FreshSems with free created one short of slot_count
FreshSems_Short(n) ==
    [free   |-> [exists |-> TRUE, value |-> n - 1],
     filled |-> [exists |-> TRUE, value |-> 0],
     mutex  |-> [exists |-> TRUE, value |-> 1]]

FreshSems(n) ==
    [free   |-> [exists |-> TRUE, value |-> n],
     filled |-> [exists |-> TRUE, value |-> 0],
     mutex  |-> [exists |-> TRUE, value |-> 1]]

\* a SharedRing as its default member initialisers leave it; live is set
\* once create_or_open has returned the object to its caller
NoHandle ==
    [live |-> FALSE, owner_ |-> FALSE, slot_count_ |-> 0, slot_size_ |-> 0,
     map_size_ |-> 0, sem_free_ |-> FALSE, sem_filled_ |-> FALSE,
     sem_mutex_ |-> FALSE]

\* the object create_or_open(name, n, s, true) returns
OwnerHandle(n, s) ==
    [live |-> TRUE, owner_ |-> TRUE, slot_count_ |-> n, slot_size_ |-> s,
     map_size_ |-> MapSize(n, s), sem_free_ |-> TRUE, sem_filled_ |-> TRUE,
     sem_mutex_ |-> TRUE]

\* the object create_or_open(name, _, _, false) returns on a created ring
AttachedHandle(region) ==
    [live |-> TRUE, owner_ |-> FALSE,
     slot_count_ |-> region.hdr.slot_count,
     slot_size_ |-> region.hdr.slot_size,
     map_size_ |-> region.size, sem_free_ |-> TRUE, sem_filled_ |-> TRUE,
     sem_mutex_ |-> TRUE]

\* no create_or_open call made yet
NoCall ==
    [create |-> FALSE, attempts |-> 0, tries |-> 0, result |-> "none",
     ready |-> FALSE, after |-> {}]

NoSnap == [taken |-> FALSE]

\* no semaphore wait has failed: count failures, of which free (filled) held
\* a token of free (filled) when they returned false
\* and intr waits interrupted by a signal
NoFailure == [count |-> 0, free |-> 0, filled |-> 0, intr |-> 0]

\* the two rings whose names are derived
RingIds == {1, 2}

\* the std::string members of a SharedRing before create_or_open sets them
NoNames ==
    [name |-> <<>>, shm_name_ |-> <<>>, sem_free_name_ |-> <<>>,
     sem_filled_name_ |-> <<>>, sem_mutex_name_ |-> <<>>]

\* the value of a variable whose object the program at hand does not have
Unused == <<>>

\* static constexpr int SENTINELVALUE{std::numeric_limits<int>::min()}
SENTINELVALUE == -2147483647 - 1

\* static constexpr std::size_t buffer_size_{8}
buffer_size_ == 8

\* the CircularBuffer as its constructor leaves it: std::fill with
\* SENTINELVALUE, read_index_{0}, write_index_{0}
NewBuffer ==
    [underlying_array_ |-> [i \in 0..(buffer_size_ - 1) |-> SENTINELVALUE],
     read_index_ |-> 0, write_index_ |-> 0]

\* both threads before their first iteration
NoThreads == [producer |-> 0, consumer |-> 0, popped |-> <<>>]

\* a program of the ring and the daemon alone: no names are derived, no
\* second SharedRing is driven and there is no CircularBuffer
LibIdle ==
    /\ named = Unused
    /\ twin = Unused
    /\ circ = Unused
    /\ thr = Unused

\* bytes off+1 .. off+n of the slot area lie inside both the mapping of
\* process p (map_size_ bytes from the start of the object) and the object
InRange(p, off, n) ==
    off + n <= Min(handle[p].map_size_, shm.size) - HeaderSize

NoLocals ==
    [idx |-> 0, len |-> 0, data |-> <<>>, out |-> <<>>, seq |-> 0,
     ret |-> "none"]

\* the payload of the k-th write_message call: len bytes, each of value k
Payload(k, len) == [i \in 1..len |-> k]

(***************************************************************************)
(* Discovery daemon of src/shm_ipc_with_SD/app/producer.cc (ipc_daemon)    *)
(* and its clients: the names, the datagrams and the state before any      *)
(* client has started.  A datagram is the sequence of its                  *)
(* whitespace-separated tokens.                                            *)
(***************************************************************************)
Keys == {"demo", "other"}        \* service keys
ProducerSocks == {"a"}           \* sockets of producers: never read
ConsumerSocks == {"b", "c"}      \* sockets of consumers
Clients == ProducerSocks \cup ConsumerSocks
NoRing == "-"                    \* the shm token of a client without a ring

\* the shm name a client registers with
ShmOf(c) == IF c \in ProducerSocks THEN "/r1" ELSE NoRing

\* struct ClientInfo { sock; shm; }
ClientInfo(s, m) == [sock |-> s, shm |-> m]

\* operator>> of the istringstream: the i-th token, empty when there is none
Token(msg, i) == IF i <= Len(msg) THEN msg[i] ELSE ""

\* a + " " + b + " " + ... as the receiver tokenises it: empty parts vanish
Join(parts) == SelectSeq(parts, LAMBDA t : t # "")

\* ipc_daemon in recvfrom, no REGISTER under way
BrokerAtRecv == [pc |-> "recv", key |-> "", client_sock |-> "", shm |-> "", i |-> 0]

\* ipc_daemon has started and no client has
BrokerIdle ==
    /\ registry = [k \in Keys |-> <<>>]
    /\ dq = <<>>
    /\ inbox = [c \in Clients |-> <<>>]
    /\ bk = BrokerAtRecv
    /\ handled = <<>>
    /\ bound = {}
    /\ cst = [c \in Clients |-> "start"]
    /\ sent = 0

(***************************************************************************)
(* Initial state of the ring specification: the owner has created the ring *)
(* with (N, S) and every consumer has attached to it.                      *)
(***************************************************************************)
InitRing(cs) ==
    \E n \in 1..MaxSlotCount, s \in 0..MaxSlotSize :
        /\ shm = FreshShm(n, s)
        /\ sems = FreshSems(n)
        /\ consumers = cs
        /\ handle = [p \in Procs |->
                        IF p = Producer THEN OwnerHandle(n, s)
                        ELSE IF p \in cs THEN AttachedHandle(FreshShm(n, s))
                        ELSE NoHandle]
        /\ pc = [p \in Procs |-> "idle"]
        /\ loc = [p \in Procs |-> NoLocals]
        /\ written = <<>>
        /\ wrote = <<>>
        /\ delivered = <<>>
        /\ calls = 0
        /\ budget = MaxWrites
        /\ co = [p \in Procs |-> NoCall]
        /\ snap = NoSnap
        /\ unlinked = {}
        /\ failed = NoFailure
        /\ LibIdle
        /\ BrokerIdle

Init == \E cs \in {{"C1"}, {"C1", "C2"}} : InitRing(cs)

\* one producer and one consumer
InitPair == InitRing({"C1"})

(***************************************************************************)
(* write_message(data, len)                                                *)
(***************************************************************************)
\* WriteCall with the length test made after the wait on free: an oversized
\* call takes a free token before it returns false
WriteCall_LateTest(p) ==
    /\ p = Producer
    /\ pc[p] = "idle"
    /\ handle[p].live
    /\ calls < budget
    /\ calls' = calls + 1
    /\ \E len \in 0..(handle[p].slot_size_ + 1) :
        IF len > handle[p].slot_size_
          THEN /\ sems.free.value > 0
               /\ sems' = [sems EXCEPT !.free.value = @ - 1]
               /\ loc' = [loc EXCEPT ![p].len = len,
                                     ![p].data = Payload(calls + 1, len),
                                     ![p].ret = "false"]
               /\ pc' = pc
          ELSE /\ sems' = sems
               /\ loc' = [loc EXCEPT ![p].len = len,
                                     ![p].data = Payload(calls + 1, len),
                                     ![p].ret = "none"]
               /\ pc' = [pc EXCEPT ![p] = "w_free"]
    /\ UNCHANGED <<shm, frame, written, wrote, delivered>>

\* WriteCall with the test of line 211 as len >= slot_size_
WriteCall_Strict(p) ==
    /\ p = Producer
    /\ pc[p] = "idle"
    /\ handle[p].live
    /\ calls < budget
    /\ calls' = calls + 1
    /\ \E len \in 0..(handle[p].slot_size_ + 1) :
        IF len >= handle[p].slot_size_
          THEN /\ loc' = [loc EXCEPT ![p].len = len,
                                     ![p].data = Payload(calls + 1, len),
                                     ![p].ret = "false"]
               /\ pc' = pc
          ELSE /\ loc' = [loc EXCEPT ![p].len = len,
                                     ![p].data = Payload(calls + 1, len),
                                     ![p].ret = "none"]
               /\ pc' = [pc EXCEPT ![p] = "w_free"]
    /\ UNCHANGED <<shm, sems, frame, written, wrote, delivered>>

\* the producer calls write_message with len bytes (0 .. slot_size + 1):
\* if (len > slot_size_) return false;
WriteCall(p) ==
    /\ p = Producer
    /\ pc[p] = "idle"
    /\ handle[p].live
    /\ calls < budget
    /\ calls' = calls + 1
    /\ \E len \in 0..(handle[p].slot_size_ + 1) :
        IF len > handle[p].slot_size_
          THEN /\ loc' = [loc EXCEPT ![p].len = len,
                                     ![p].data = Payload(calls + 1, len),
                                     ![p].ret = "false"]
               /\ pc' = pc
          ELSE /\ loc' = [loc EXCEPT ![p].len = len,
                                     ![p].data = Payload(calls + 1, len),
                                     ![p].ret = "none"]
               /\ pc' = [pc EXCEPT ![p] = "w_free"]
    /\ UNCHANGED <<shm, sems, frame, written, wrote, delivered>>

\* WriteWaitFree that passes a free semaphore of value 0
WriteWaitFree_NoWait(p) ==
    /\ pc[p] = "w_free"
    /\ sems.free.value >= 0
    /\ sems' = [sems EXCEPT !.free.value = @ - 1]
    /\ pc' = [pc EXCEPT ![p] = "w_mutex"]
    /\ UNCHANGED <<shm, frame, loc, written, wrote, delivered, calls>>

\* sem_wait_intr(sem_free_)
WriteWaitFree(p) ==
    /\ pc[p] = "w_free"
    /\ sems.free.value > 0
    /\ sems' = [sems EXCEPT !.free.value = @ - 1]
    /\ pc' = [pc EXCEPT ![p] = "w_mutex"]
    /\ UNCHANGED <<shm, frame, loc, written, wrote, delivered, calls>>

\* WriteWaitMutex without the wait of line 217: the mutex is not taken
WriteWaitMutex_NoLock(p) ==
    /\ pc[p] = "w_mutex"
    /\ sems' = sems
    /\ pc' = [pc EXCEPT ![p] = "w_slot"]
    /\ UNCHANGED <<shm, frame, loc, written, wrote, delivered, calls>>

\* sem_wait_intr(sem_mutex_)
WriteWaitMutex(p) ==
    /\ pc[p] = "w_mutex"
    /\ sems.mutex.value > 0
    /\ sems' = [sems EXCEPT !.mutex.value = @ - 1]
    /\ pc' = [pc EXCEPT ![p] = "w_slot"]
    /\ UNCHANGED <<shm, frame, loc, written, wrote, delivered, calls>>

\* idx = hdr_->tail; memcpy(slot, &len, 4); memcpy(slot + 4, data, len)
WriteSlot(p) ==
    /\ pc[p] = "w_slot"
    /\ LET i == shm.hdr.tail
           off == SlotOffset(i, handle[p].slot_size_)
       IN  IF InRange(p, off, LenPrefix + loc[p].len)
             THEN /\ shm' = [shm EXCEPT !.slots =
                               Poke(Poke(@, off, LenBytes(loc[p].len)),
                                    off + LenPrefix, loc[p].data)]
                  /\ loc' = [loc EXCEPT ![p].idx = i]
                  /\ pc' = [pc EXCEPT ![p] = "w_tail"]
             ELSE \* access outside the object: a fault, or a store that is lost
                  \/ /\ pc' = [pc EXCEPT ![p] = "crashed"]
                     /\ UNCHANGED <<shm, loc>>
                  \/ /\ loc' = [loc EXCEPT ![p].idx = i]
                     /\ pc' = [pc EXCEPT ![p] = "w_tail"]
                     /\ UNCHANGED shm
    /\ written' = IF pc'[p] = "w_tail" THEN Append(written, loc[p].data)
                  ELSE written
    /\ UNCHANGED <<sems, frame, wrote, delivered, calls>>

\* WriteTail without the advance of line 223: tail stays where it was
WriteTail_Stuck(p) ==
    /\ pc[p] = "w_tail"
    /\ IF shm.hdr.slot_count = 0
         THEN /\ pc' = [pc EXCEPT ![p] = "crashed"]   \* division by zero
              /\ UNCHANGED shm
         ELSE /\ shm' = [shm EXCEPT !.hdr.tail =
                            shm.hdr.tail]
              /\ pc' = [pc EXCEPT ![p] = "w_post_mutex"]
    /\ UNCHANGED <<sems, frame, loc, written, wrote, delivered, calls>>

\* hdr_->tail = (idx + 1) % hdr_->slot_count
WriteTail(p) ==
    /\ pc[p] = "w_tail"
    /\ IF shm.hdr.slot_count = 0
         THEN /\ pc' = [pc EXCEPT ![p] = "crashed"]   \* division by zero
              /\ UNCHANGED shm
         ELSE /\ shm' = [shm EXCEPT !.hdr.tail =
                            (loc[p].idx + 1) % shm.hdr.slot_count]
              /\ pc' = [pc EXCEPT ![p] = "w_post_mutex"]
    /\ UNCHANGED <<sems, frame, loc, written, wrote, delivered, calls>>

\* sem_post(sem_mutex_)
WritePostMutex(p) ==
    /\ pc[p] = "w_post_mutex"
    /\ sems' = [sems EXCEPT !.mutex.value = @ + 1]
    /\ pc' = [pc EXCEPT ![p] = "w_post_filled"]
    /\ UNCHANGED <<shm, frame, loc, written, wrote, delivered, calls>>

\* WritePostFilled without the sem_post of line 226
WritePostFilled_NoPost(p) ==
    /\ pc[p] = "w_post_filled"
    /\ sems' = sems
    /\ loc' = [loc EXCEPT ![p].ret = "true"]
    /\ wrote' = Append(wrote, loc[p].data)
    /\ pc' = [pc EXCEPT ![p] = "idle"]
    /\ UNCHANGED <<shm, frame, written, delivered, calls>>

\* sem_post(sem_filled_); return true;
WritePostFilled(p) ==
    /\ pc[p] = "w_post_filled"
    /\ sems' = [sems EXCEPT !.filled.value = @ + 1]
    /\ loc' = [loc EXCEPT ![p].ret = "true"]
    /\ wrote' = Append(wrote, loc[p].data)
    /\ pc' = [pc EXCEPT ![p] = "idle"]
    /\ UNCHANGED <<shm, frame, written, delivered, calls>>

(***************************************************************************)
(* read_message(out)                                                       *)
(***************************************************************************)
\* a consumer enters its loop  while (ring_ptr->read_message(b)) { ... }
ReadCall(p) ==
    /\ p \in consumers
    /\ pc[p] = "idle"
    /\ handle[p].live
    /\ loc' = [loc EXCEPT ![p].ret = "none"]
    /\ pc' = [pc EXCEPT ![p] = "r_filled"]
    /\ UNCHANGED <<shm, sems, frame, written, wrote, delivered, calls>>

\* ReadWaitFilled that passes a filled semaphore of value 0
ReadWaitFilled_NoWait(p) ==
    /\ pc[p] = "r_filled"
    /\ sems.filled.value >= 0
    /\ sems' = [sems EXCEPT !.filled.value = @ - 1]
    /\ pc' = [pc EXCEPT ![p] = "r_mutex"]
    /\ UNCHANGED <<shm, frame, loc, written, wrote, delivered, calls>>

\* sem_wait_intr(sem_filled_)
ReadWaitFilled(p) ==
    /\ pc[p] = "r_filled"
    /\ sems.filled.value > 0
    /\ sems' = [sems EXCEPT !.filled.value = @ - 1]
    /\ pc' = [pc EXCEPT ![p] = "r_mutex"]
    /\ UNCHANGED <<shm, frame, loc, written, wrote, delivered, calls>>

\* ReadWaitMutex without the wait of line 239: the mutex is not taken
ReadWaitMutex_NoLock(p) ==
    /\ pc[p] = "r_mutex"
    /\ sems' = sems
    /\ pc' = [pc EXCEPT ![p] = "r_slot"]
    /\ UNCHANGED <<shm, frame, loc, written, wrote, delivered, calls>>

\* sem_wait_intr(sem_mutex_)
ReadWaitMutex(p) ==
    /\ pc[p] = "r_mutex"
    /\ sems.mutex.value > 0
    /\ sems' = [sems EXCEPT !.mutex.value = @ - 1]
    /\ pc' = [pc EXCEPT ![p] = "r_slot"]
    /\ UNCHANGED <<shm, frame, loc, written, wrote, delivered, calls>>

\* the number of ReadSlot steps taken so far (history)
ReadsTaken ==
    Len(delivered) + Cardinality({q \in Procs :
                        pc[q] \in {"r_head", "r_post_mutex", "r_post_free"}})

\* ReadSlot without the out.resize of line 245 when the length is 0
ReadSlot_NoResize(p) ==
    /\ pc[p] = "r_slot"
    /\ LET i == shm.hdr.head
           off == SlotOffset(i, handle[p].slot_size_)
           len == IF InRange(p, off, LenPrefix)
                    THEN DecodeLen(Bytes(shm.slots, off, LenPrefix))
                    ELSE 0
       IN  IF InRange(p, off, LenPrefix + len)
             THEN /\ loc' = [loc EXCEPT
                               ![p].idx = i, ![p].len = len,
                               ![p].seq = ReadsTaken + 1,
                               ![p].out = IF len = 0 THEN loc[p].out
                                            ELSE Bytes(shm.slots, off + LenPrefix, len)]
                  /\ pc' = [pc EXCEPT ![p] = "r_head"]
             ELSE \* access outside the object: a fault, or zero bytes read
                  \/ /\ pc' = [pc EXCEPT ![p] = "crashed"]
                     /\ UNCHANGED loc
                  \/ /\ loc' = [loc EXCEPT
                                  ![p].idx = i, ![p].len = 0,
                                  ![p].seq = ReadsTaken + 1,
                                  ![p].out = <<>>]
                     /\ pc' = [pc EXCEPT ![p] = "r_head"]
    /\ UNCHANGED <<shm, sems, frame, written, wrote, delivered, calls>>

\* idx = hdr_->head; memcpy(&len, slot, 4); out.resize(len);
\* memcpy(out.data(), slot + 4, len)
ReadSlot(p) ==
    /\ pc[p] = "r_slot"
    /\ LET i == shm.hdr.head
           off == SlotOffset(i, handle[p].slot_size_)
           len == IF InRange(p, off, LenPrefix)
                    THEN DecodeLen(Bytes(shm.slots, off, LenPrefix))
                    ELSE 0
       IN  IF InRange(p, off, LenPrefix + len)
             THEN /\ loc' = [loc EXCEPT
                               ![p].idx = i, ![p].len = len,
                               ![p].seq = ReadsTaken + 1,
                               ![p].out = Bytes(shm.slots, off + LenPrefix, len)]
                  /\ pc' = [pc EXCEPT ![p] = "r_head"]
             ELSE \* access outside the object: a fault, or zero bytes read
                  \/ /\ pc' = [pc EXCEPT ![p] = "crashed"]
                     /\ UNCHANGED loc
                  \/ /\ loc' = [loc EXCEPT
                                  ![p].idx = i, ![p].len = 0,
                                  ![p].seq = ReadsTaken + 1,
                                  ![p].out = <<>>]
                     /\ pc' = [pc EXCEPT ![p] = "r_head"]
    /\ UNCHANGED <<shm, sems, frame, written, wrote, delivered, calls>>

\* ReadHead without the advance of line 247: head stays where it was
ReadHead_Stuck(p) ==
    /\ pc[p] = "r_head"
    /\ IF shm.hdr.slot_count = 0
         THEN /\ pc' = [pc EXCEPT ![p] = "crashed"]   \* division by zero
              /\ UNCHANGED shm
         ELSE /\ shm' = [shm EXCEPT !.hdr.head = shm.hdr.head]
              /\ pc' = [pc EXCEPT ![p] = "r_post_mutex"]
    /\ UNCHANGED <<sems, frame, loc, written, wrote, delivered, calls>>

\* ReadHead that stores the new index into tail as well
ReadHead_MovesTail(p) ==
    /\ pc[p] = "r_head"
    /\ IF shm.hdr.slot_count = 0
         THEN /\ pc' = [pc EXCEPT ![p] = "crashed"]   \* division by zero
              /\ UNCHANGED shm
         ELSE /\ shm' = [shm EXCEPT
                            !.hdr.head = (loc[p].idx + 1) % shm.hdr.slot_count,
                            !.hdr.tail = (loc[p].idx + 1) % shm.hdr.slot_count]
              /\ pc' = [pc EXCEPT ![p] = "r_post_mutex"]
    /\ UNCHANGED <<sems, frame, loc, written, wrote, delivered, calls>>

\* hdr_->head = (idx + 1) % hdr_->slot_count
ReadHead(p) ==
    /\ pc[p] = "r_head"
    /\ IF shm.hdr.slot_count = 0
         THEN /\ pc' = [pc EXCEPT ![p] = "crashed"]   \* division by zero
              /\ UNCHANGED shm
         ELSE /\ shm' = [shm EXCEPT !.hdr.head =
                            (loc[p].idx + 1) % shm.hdr.slot_count]
              /\ pc' = [pc EXCEPT ![p] = "r_post_mutex"]
    /\ UNCHANGED <<sems, frame, loc, written, wrote, delivered, calls>>

\* sem_post(sem_mutex_)
ReadPostMutex(p) ==
    /\ pc[p] = "r_post_mutex"
    /\ sems' = [sems EXCEPT !.mutex.value = @ + 1]
    /\ pc' = [pc EXCEPT ![p] = "r_post_free"]
    /\ UNCHANGED <<shm, frame, loc, written, wrote, delivered, calls>>

\* ReadPostFree without the sem_post of line 250
ReadPostFree_NoPost(p) ==
    /\ pc[p] = "r_post_free"
    /\ sems' = sems
    /\ loc' = [loc EXCEPT ![p].ret = "true"]
    /\ delivered' = Append(delivered,
                       [who |-> p, seq |-> loc[p].seq, nw |-> Len(wrote),
                        data |-> loc[p].out])
    /\ pc' = [pc EXCEPT ![p] = "r_filled"]
    /\ UNCHANGED <<shm, frame, written, wrote, calls>>

\* ReadPostFree with free posted twice: one read frees two slots
ReadPostFree_Twice(p) ==
    /\ pc[p] = "r_post_free"
    /\ sems' = [sems EXCEPT !.free.value = @ + 2]
    /\ loc' = [loc EXCEPT ![p].ret = "true"]
    /\ delivered' = Append(delivered,
                       [who |-> p, seq |-> loc[p].seq, nw |-> Len(wrote),
                        data |-> loc[p].out])
    /\ pc' = [pc EXCEPT ![p] = "r_filled"]
    /\ UNCHANGED <<shm, frame, written, wrote, calls>>

\* sem_post(sem_free_); return true;  the caller's loop calls again
ReadPostFree(p) ==
    /\ pc[p] = "r_post_free"
    /\ sems' = [sems EXCEPT !.free.value = @ + 1]
    /\ loc' = [loc EXCEPT ![p].ret = "true"]
    /\ delivered' = Append(delivered,
                       [who |-> p, seq |-> loc[p].seq, nw |-> Len(wrote),
                        data |-> loc[p].out])
    /\ pc' = [pc EXCEPT ![p] = "r_filled"]
    /\ UNCHANGED <<shm, frame, written, wrote, calls>>

(***************************************************************************)
(* The ring specification: one producer and one or two consumers on a      *)
(* created ring, no semaphore operation failing.                           *)
(***************************************************************************)
WriteStep(p) ==
    \/ WriteWaitFree(p) \/ WriteWaitMutex(p)
    \/ WriteSlot(p) \/ WriteTail(p) \/ WritePostMutex(p) \/ WritePostFilled(p)

ReadStep(p) ==
    \/ ReadWaitFilled(p) \/ ReadWaitMutex(p) \/ ReadSlot(p)
    \/ ReadHead(p) \/ ReadPostMutex(p) \/ ReadPostFree(p)

Next ==
    \/ \E p \in Procs : WriteCall(p)
    \/ \E p \in Procs : WriteWaitFree(p)
    \/ \E p \in Procs : WriteWaitMutex(p)
    \/ \E p \in Procs : WriteSlot(p)
    \/ \E p \in Procs : WriteTail(p)
    \/ \E p \in Procs : WritePostMutex(p)
    \/ \E p \in Procs : WritePostFilled(p)
    \/ \E p \in Procs : ReadCall(p)
    \/ \E p \in Procs : ReadWaitFilled(p)
    \/ \E p \in Procs : ReadWaitMutex(p)
    \/ \E p \in Procs : ReadSlot(p)
    \/ \E p \in Procs : ReadHead(p)
    \/ \E p \in Procs : ReadPostMutex(p)
    \/ \E p \in Procs : ReadPostFree(p)

Spec == Init /\ [][Next]_vars

\* one producer and one consumer, each scheduled again and again by the
\* operating system
FairSpec ==
    /\ InitPair
    /\ [][Next]_vars
    /\ \A p \in Procs :
          WF_vars(WriteCall(p) \/ WriteStep(p) \/ ReadCall(p) \/ ReadStep(p))

(***************************************************************************)
(* Failing semaphore waits.  sem_wait_intr repeats sem_wait while it       *)
(* fails with EINTR and returns -1 on any other error; the caller then     *)
(* prints the error and returns false.  Such a failure does not depend on  *)
(* the value of the semaphore.                                             *)
(***************************************************************************)
\* the call of p returns false; it held n tokens of free and m of filled
ReturnFalse(p, n, m) ==
    /\ failed.count < MaxFails
    /\ failed' = [count |-> failed.count + 1, free |-> failed.free + n,
                  filled |-> failed.filled + m, intr |-> failed.intr]
    /\ loc' = [loc EXCEPT ![p].ret = "false"]
    /\ pc' = [pc EXCEPT ![p] = "idle"]
    /\ UNCHANGED <<shm, sems, handle, consumers, budget, co, snap, unlinked,
                   written, wrote, delivered, calls, brokerVars, libVars>>

\* if (sem_wait_intr(sem_free_) == -1) { perror; return false; }
WriteWaitFreeFail(p) == pc[p] = "w_free" /\ ReturnFalse(p, 0, 0)

\* WriteWaitMutexFail that posts free before it returns false
WriteWaitMutexFail_Restore(p) ==
    /\ pc[p] = "w_mutex"
    /\ failed.count < MaxFails
    /\ failed' = [failed EXCEPT !.count = @ + 1]
    /\ sems' = [sems EXCEPT !.free.value = @ + 1]
    /\ loc' = [loc EXCEPT ![p].ret = "false"]
    /\ pc' = [pc EXCEPT ![p] = "idle"]
    /\ UNCHANGED <<shm, handle, consumers, budget, co, snap, unlinked,
                   written, wrote, delivered, calls, brokerVars, libVars>>

\* if (sem_wait_intr(sem_mutex_) == -1) { perror; return false; } in
\* write_message: the token taken from free is not posted back
WriteWaitMutexFail(p) == pc[p] = "w_mutex" /\ ReturnFalse(p, 1, 0)

\* if (sem_wait_intr(sem_filled_) == -1) { perror; return false; }
ReadWaitFilledFail(p) == pc[p] = "r_filled" /\ ReturnFalse(p, 0, 0)

\* if (sem_wait_intr(sem_mutex_) == -1) { perror; return false; } in
\* read_message: the token taken from filled is not posted back
ReadWaitMutexFail(p) == pc[p] = "r_mutex" /\ ReturnFalse(p, 0, 1)

\* one producer and one consumer on a created ring, with semaphore waits
\* that can fail
ErrNext ==
    \/ \E p \in Procs : WriteWaitFreeFail(p)
    \/ \E p \in Procs : WriteWaitMutexFail(p)
    \/ \E p \in Procs : ReadWaitFilledFail(p)
    \/ \E p \in Procs : ReadWaitMutexFail(p)
    \/ Next

ErrSpec == InitPair /\ [][ErrNext]_vars

\* a semaphore wait of p is where a signal or an error can end sem_wait
AtWait(p) == pc[p] \in {"w_free", "w_mutex", "r_filled", "r_mutex"}

\* WaitInterrupted without the retry: the call returns false on EINTR
WaitInterrupted_Fails(p) ==
    /\ AtWait(p)
    /\ failed.intr < MaxIntr
    /\ failed' = [failed EXCEPT !.intr = @ + 1]
    /\ loc' = [loc EXCEPT ![p].ret = "false"]
    /\ pc' = [pc EXCEPT ![p] = "idle"]
    /\ UNCHANGED <<shm, sems, handle, consumers, budget, co, snap, unlinked,
                   written, wrote, delivered, calls, brokerVars, libVars>>

\* sem_wait returns -1 with errno == EINTR: do { r = sem_wait(s); }
\* while (r == -1 && errno == EINTR) calls sem_wait again
WaitInterrupted(p) ==
    /\ AtWait(p)
    /\ failed.intr < MaxIntr
    /\ failed' = [failed EXCEPT !.intr = @ + 1]
    /\ UNCHANGED <<shm, sems, handle, pc, loc, consumers, budget, co, snap,
                   unlinked, written, wrote, delivered, calls, brokerVars, libVars>>


(***************************************************************************)
(* create_or_open(name, slot_count, slot_size, create) and init_map.       *)
(* A call that returns nullptr destroys its SharedRing: the destructor     *)
(* closes and unmaps and removes no name.                                  *)
(***************************************************************************)
LifeWrites == 1       \* writes the producer makes in the lifecycle models

ZeroHeader ==
    [magic |-> ZeroMagic, version |-> 0, slot_count |-> 0, slot_size |-> 0,
     head |-> 0, tail |-> 0]

AbsentShm ==
    [exists |-> FALSE, size |-> 0, hdr |-> ZeroHeader, slots |-> <<>>]

AbsentSems ==
    [free   |-> [exists |-> FALSE, value |-> 0],
     filled |-> [exists |-> FALSE, value |-> 0],
     mutex  |-> [exists |-> FALSE, value |-> 0]]

\* the owner has returned from create_or_open: region and semaphores are made
RingReady == shm.exists /\ handle[Producer].live

\* p = new SharedRing(); p->slot_count_ = ...; p->owner_ = create
Begin(p, n, s, create) ==
    /\ handle' = [handle EXCEPT ![p] =
                    [NoHandle EXCEPT !.slot_count_ = n, !.slot_size_ = s,
                                     !.owner_ = create]]
    /\ co' = [co EXCEPT ![p] =
                [create |-> create, attempts |-> co[p].attempts + 1,
                 tries |-> 0, result |-> "none", ready |-> RingReady,
                 after |-> unlinked]]
    /\ pc' = [pc EXCEPT ![p] = "co_open"]

\* return nullptr
ReturnNull(p) ==
    /\ handle' = [handle EXCEPT ![p] = NoHandle]
    /\ co' = [co EXCEPT ![p].result = "absent"]
    /\ pc' = [pc EXCEPT ![p] = "co_failed"]

\* return p (the counters of the retry loops go out of scope)
ReturnLive(p) ==
    /\ co' = [co EXCEPT ![p].result = "live", ![p].tries = 0,
                        ![p].attempts = 0]
    /\ pc' = [pc EXCEPT ![p] = "idle"]

ringState ==
    <<loc, written, wrote, delivered, calls, consumers, budget, unlinked,
      failed, brokerVars, libVars>>

\* a producer's main calls create_or_open(shmname, SLOTS, SLOT_SZ, true)
CreateCall(p) ==
    /\ p \in {Producer, Intruder}
    /\ pc[p] = "idle"
    /\ ~ handle[p].live
    /\ co[p].result = "none"
    /\ \E n \in 1..MaxSlotCount, s \in 0..MaxSlotSize : Begin(p, n, s, TRUE)
    /\ snap' = IF shm.exists
                 THEN [taken |-> TRUE, shm |-> shm, pc |-> pc,
                       calls |-> calls, reads |-> Len(delivered)]
                 ELSE snap
    /\ UNCHANGED <<shm, sems, ringState>>

\* the consumer's loop: for (i = 0; i < 20; ++i) {
\*   ring_ptr = create_or_open(peer_shm, 1, 1, false); if (ring_ptr) break;
\*   sleep 200ms }
AttachCall(p) ==
    /\ p \in consumers
    /\ pc[p] \in {"idle", "co_failed"}
    /\ ~ handle[p].live
    /\ co[p].result # "live"
    /\ co[p].attempts < AttachRetries
    /\ Begin(p, ConsumerSlotCount, ConsumerSlotSize, FALSE)
    /\ UNCHANGED <<shm, sems, ringState, snap>>

\* if (!ring_ptr) { "Failed to open shared ring after retries"; continue; }
AttachGiveUp(p) ==
    /\ p \in consumers
    /\ pc[p] = "co_failed"
    /\ co[p].attempts >= AttachRetries
    /\ pc' = [pc EXCEPT ![p] = "attach_failed"]
    /\ UNCHANGED <<shm, sems, handle, co, ringState, snap>>

\* map_size_ = header_sz + slot_count_ * single_slot;
\* shm_fd_ = shm_open(name, create ? O_CREAT | O_RDWR : O_RDWR, 0666)
ShmOpen(p) ==
    /\ pc[p] = "co_open"
    /\ IF co[p].create
         THEN /\ shm' = IF shm.exists THEN shm
                        ELSE [AbsentShm EXCEPT !.exists = TRUE]
              /\ handle' = [handle EXCEPT ![p].map_size_ =
                              MapSize(handle[p].slot_count_, handle[p].slot_size_)]
              /\ pc' = [pc EXCEPT ![p] = "co_size"]
              /\ UNCHANGED co
         ELSE IF shm.exists
                THEN /\ handle' = [handle EXCEPT ![p].map_size_ =
                              MapSize(handle[p].slot_count_, handle[p].slot_size_)]
                     /\ pc' = [pc EXCEPT ![p] = "co_size"]
                     /\ UNCHANGED <<shm, co>>
                ELSE /\ ReturnNull(p)
                     /\ UNCHANGED shm
    /\ UNCHANGED <<sems, ringState, snap>>

\* ShmSize with the test of line 125 against the header size alone
ShmSize_HeaderOnly(p) ==
    /\ pc[p] = "co_size"
    /\ IF co[p].create
         THEN /\ shm' = [shm EXCEPT
                           !.size = handle[p].map_size_,
                           !.slots = Resize(@, handle[p].map_size_ - HeaderSize)]
              /\ pc' = [pc EXCEPT ![p] = "co_magic"]
              /\ UNCHANGED <<handle, co>>
         ELSE IF shm.size < HeaderSize
                THEN /\ ReturnNull(p)
                     /\ UNCHANGED shm
                ELSE /\ handle' = [handle EXCEPT ![p].map_size_ = shm.size]
                     /\ pc' = [pc EXCEPT ![p] = "co_check"]
                     /\ UNCHANGED <<shm, co>>
    /\ UNCHANGED <<sems, ringState, snap>>

\* ShmSize with the test of line 125 as st_size <= map_size_
ShmSize_Strict(p) ==
    /\ pc[p] = "co_size"
    /\ IF co[p].create
         THEN /\ shm' = [shm EXCEPT
                           !.size = handle[p].map_size_,
                           !.slots = Resize(@, handle[p].map_size_ - HeaderSize)]
              /\ pc' = [pc EXCEPT ![p] = "co_magic"]
              /\ UNCHANGED <<handle, co>>
         ELSE IF shm.size <= handle[p].map_size_
                THEN /\ ReturnNull(p)
                     /\ UNCHANGED shm
                ELSE /\ handle' = [handle EXCEPT ![p].map_size_ = shm.size]
                     /\ pc' = [pc EXCEPT ![p] = "co_check"]
                     /\ UNCHANGED <<shm, co>>
    /\ UNCHANGED <<sems, ringState, snap>>

\* create: ftruncate(shm_fd_, map_size_);  attach: fstat, "shm too small",
\* map_size_ = st.st_size;  then mmap of map_size_ bytes
ShmSize(p) ==
    /\ pc[p] = "co_size"
    /\ IF co[p].create
         THEN /\ shm' = [shm EXCEPT
                           !.size = handle[p].map_size_,
                           !.slots = Resize(@, handle[p].map_size_ - HeaderSize)]
              /\ pc' = [pc EXCEPT ![p] = "co_magic"]
              /\ UNCHANGED <<handle, co>>
         ELSE IF shm.size < handle[p].map_size_
                THEN /\ ReturnNull(p)
                     /\ UNCHANGED shm
                ELSE /\ handle' = [handle EXCEPT ![p].map_size_ = shm.size]
                     /\ pc' = [pc EXCEPT ![p] = "co_check"]
                     /\ UNCHANGED <<shm, co>>
    /\ UNCHANGED <<sems, ringState, snap>>

\* hdr_->magic = 0xA1B2C3D4; hdr_->version = 1
HdrMagic(p) ==
    /\ pc[p] = "co_magic"
    /\ shm' = [shm EXCEPT !.hdr.magic = Magic, !.hdr.version = Version]
    /\ pc' = [pc EXCEPT ![p] = "co_count"]
    /\ UNCHANGED <<sems, handle, co, ringState, snap>>

\* hdr_->slot_count = slot_count_
HdrCount(p) ==
    /\ pc[p] = "co_count"
    /\ shm' = [shm EXCEPT !.hdr.slot_count = handle[p].slot_count_]
    /\ pc' = [pc EXCEPT ![p] = "co_ssize"]
    /\ UNCHANGED <<sems, handle, co, ringState, snap>>

\* hdr_->slot_size = slot_size_
HdrSlotSize(p) ==
    /\ pc[p] = "co_ssize"
    /\ shm' = [shm EXCEPT !.hdr.slot_size = handle[p].slot_size_]
    /\ pc' = [pc EXCEPT ![p] = "co_idx"]
    /\ UNCHANGED <<sems, handle, co, ringState, snap>>

\* hdr_->head = 0; hdr_->tail = 0
HdrIndices(p) ==
    /\ pc[p] = "co_idx"
    /\ shm' = [shm EXCEPT !.hdr.head = 0, !.hdr.tail = 0]
    /\ pc' = [pc EXCEPT ![p] = "co_zero"]
    /\ UNCHANGED <<sems, handle, co, ringState, snap>>

\* memset(map_ptr_ + header_sz, 0, map_size_ - header_sz)
ZeroSlots(p) ==
    /\ pc[p] = "co_zero"
    /\ LET n == handle[p].map_size_ - HeaderSize
       IN  IF n <= Len(shm.slots)
             THEN /\ shm' = [shm EXCEPT !.slots = Poke(@, 0, Zeros(n))]
                  /\ pc' = [pc EXCEPT ![p] = "co_sem_free"]
             ELSE \* the object has shrunk under the mapping: a fault, or
                  \* the stores that still reach it
                  \/ /\ pc' = [pc EXCEPT ![p] = "crashed"]
                     /\ UNCHANGED shm
                  \/ /\ shm' = [shm EXCEPT !.slots = Zeros(Len(@))]
                     /\ pc' = [pc EXCEPT ![p] = "co_sem_free"]
    /\ UNCHANGED <<sems, handle, co, ringState, snap>>

\* sem_open(name, O_CREAT | O_EXCL, 0666, value) for free (slot_count),
\* filled (0) and mutex (1) in turn; SEM_FAILED returns nullptr
SemCreate(p) ==
    /\ pc[p] \in {"co_sem_free", "co_sem_filled", "co_sem_mutex"}
    /\ LET k == CASE pc[p] = "co_sem_free" -> "free"
                  [] pc[p] = "co_sem_filled" -> "filled"
                  [] pc[p] = "co_sem_mutex" -> "mutex"
           v == CASE k = "free" -> handle[p].slot_count_
                  [] k = "filled" -> 0
                  [] k = "mutex" -> 1
       IN  IF sems[k].exists
             THEN /\ ReturnNull(p)
                  /\ UNCHANGED sems
             ELSE /\ sems' = [sems EXCEPT ![k] = [exists |-> TRUE, value |-> v]]
                  /\ CASE k = "free" ->
                            /\ handle' = [handle EXCEPT ![p].sem_free_ = TRUE]
                            /\ pc' = [pc EXCEPT ![p] = "co_sem_filled"]
                            /\ UNCHANGED co
                       [] k = "filled" ->
                            /\ handle' = [handle EXCEPT ![p].sem_filled_ = TRUE]
                            /\ pc' = [pc EXCEPT ![p] = "co_sem_mutex"]
                            /\ UNCHANGED co
                       [] k = "mutex" ->
                            /\ handle' = [handle EXCEPT ![p].sem_mutex_ = TRUE,
                                                        ![p].live = TRUE]
                            /\ ReturnLive(p)
    /\ UNCHANGED <<shm, ringState, snap>>

\* if (hdr_->magic != 0xA1B2C3D4) return false
CheckMagic(p) ==
    /\ pc[p] = "co_check"
    /\ IF shm.hdr.magic # Magic
         THEN ReturnNull(p)
         ELSE /\ pc' = [pc EXCEPT ![p] = "co_adopt_count"]
              /\ UNCHANGED <<handle, co>>
    /\ UNCHANGED <<shm, sems, ringState, snap>>

\* slot_count_ = hdr_->slot_count
AdoptCount(p) ==
    /\ pc[p] = "co_adopt_count"
    /\ handle' = [handle EXCEPT ![p].slot_count_ = shm.hdr.slot_count]
    /\ pc' = [pc EXCEPT ![p] = "co_adopt_size"]
    /\ UNCHANGED <<shm, sems, co, ringState, snap>>

\* slot_size_ = hdr_->slot_size
AdoptSize(p) ==
    /\ pc[p] = "co_adopt_size"
    /\ handle' = [handle EXCEPT ![p].slot_size_ = shm.hdr.slot_size]
    /\ pc' = [pc EXCEPT ![p] = "co_sems"]
    /\ UNCHANGED <<shm, sems, co, ringState, snap>>

\* SemTry with the loop bound of line 76 as i <= 20
SemTry_OneMore(p) ==
    /\ pc[p] = "co_sems"
    /\ LET opened == [handle[p] EXCEPT !.sem_free_ = sems.free.exists,
                                       !.sem_filled_ = sems.filled.exists,
                                       !.sem_mutex_ = sems.mutex.exists]
       IN  IF sems.free.exists /\ sems.filled.exists /\ sems.mutex.exists
             THEN /\ handle' = [handle EXCEPT ![p] =
                                   [opened EXCEPT !.live = TRUE]]
                  /\ ReturnLive(p)
             ELSE IF co[p].tries + 1 <= SemRetries
                    THEN /\ handle' = [handle EXCEPT ![p] = opened]
                         /\ co' = [co EXCEPT ![p].tries = @ + 1]
                         /\ UNCHANGED pc
                    ELSE /\ handle' = [handle EXCEPT ![p] = NoHandle]
                         /\ co' = [co EXCEPT ![p].tries = @ + 1,
                                             ![p].result = "absent"]
                         /\ pc' = [pc EXCEPT ![p] = "co_failed"]
    /\ UNCHANGED <<shm, sems, ringState, snap>>

\* for (i = 0; i < 20; ++i) { sem_open(free, 0); sem_open(filled, 0);
\*   sem_open(mutex, 0); if (all three opened) break; sleep 100ms }
\* if (any is SEM_FAILED) return nullptr
\* One step is one iteration.  The three names only ever come into being,
\* in the order the loop opens them, so an iteration opens all three exactly
\* when all three exist at its last sem_open.
SemTry(p) ==
    /\ pc[p] = "co_sems"
    /\ LET opened == [handle[p] EXCEPT !.sem_free_ = sems.free.exists,
                                       !.sem_filled_ = sems.filled.exists,
                                       !.sem_mutex_ = sems.mutex.exists]
       IN  IF sems.free.exists /\ sems.filled.exists /\ sems.mutex.exists
             THEN /\ handle' = [handle EXCEPT ![p] =
                                   [opened EXCEPT !.live = TRUE]]
                  /\ ReturnLive(p)
             ELSE IF co[p].tries + 1 < SemRetries
                    THEN /\ handle' = [handle EXCEPT ![p] = opened]
                         /\ co' = [co EXCEPT ![p].tries = @ + 1]
                         /\ UNCHANGED pc
                    ELSE /\ handle' = [handle EXCEPT ![p] = NoHandle]
                         /\ co' = [co EXCEPT ![p].tries = @ + 1,
                                             ![p].result = "absent"]
                         /\ pc' = [pc EXCEPT ![p] = "co_failed"]
    /\ UNCHANGED <<shm, sems, ringState, snap>>

(***************************************************************************)
(* The attach specification: nothing exists at first; the producer creates *)
(* the ring and writes, a consumer attaches with its retry loop and reads. *)
(***************************************************************************)
\* no region, no semaphore, no SharedRing object, the daemon idle
RingAbsent(cs) ==
    /\ shm = AbsentShm
    /\ sems = AbsentSems
    /\ consumers = cs
    /\ handle = [p \in Procs |-> NoHandle]
    /\ pc = [p \in Procs |-> "idle"]
    /\ loc = [p \in Procs |-> NoLocals]
    /\ written = <<>>
    /\ wrote = <<>>
    /\ delivered = <<>>
    /\ calls = 0
    /\ budget = LifeWrites
    /\ co = [p \in Procs |-> NoCall]
    /\ snap = NoSnap
    /\ unlinked = {}
    /\ failed = NoFailure
    /\ BrokerIdle

InitNothing(cs) == RingAbsent(cs) /\ LibIdle

CreateStep(p) ==
    \/ ShmOpen(p) \/ ShmSize(p) \/ HdrMagic(p) \/ HdrCount(p)
    \/ HdrSlotSize(p) \/ HdrIndices(p) \/ ZeroSlots(p) \/ SemCreate(p)

AttachStep(p) ==
    \/ ShmOpen(p) \/ ShmSize(p) \/ CheckMagic(p) \/ AdoptCount(p)
    \/ AdoptSize(p) \/ SemTry(p)

RingNext ==
    \/ \E p \in Procs : WriteCall(p)
    \/ \E p \in Procs : WriteStep(p)
    \/ \E p \in Procs : ReadCall(p)
    \/ \E p \in Procs : ReadStep(p)

AttachNext ==
    \/ CreateCall(Producer)
    \/ \E p \in Procs : AttachCall(p)
    \/ \E p \in Procs : AttachGiveUp(p)
    \/ \E p \in Procs : ShmOpen(p)
    \/ \E p \in Procs : ShmSize(p)
    \/ \E p \in Procs : HdrMagic(p)
    \/ \E p \in Procs : HdrCount(p)
    \/ \E p \in Procs : HdrSlotSize(p)
    \/ \E p \in Procs : HdrIndices(p)
    \/ \E p \in Procs : ZeroSlots(p)
    \/ \E p \in Procs : SemCreate(p)
    \/ \E p \in Procs : CheckMagic(p)
    \/ \E p \in Procs : AdoptCount(p)
    \/ \E p \in Procs : AdoptSize(p)
    \/ \E p \in Procs : SemTry(p)
    \/ RingNext

AttachSpec == InitNothing({"C1"}) /\ [][AttachNext]_vars

(***************************************************************************)
(* The re-create specification: the ring exists and is in use by its owner *)
(* and one consumer; another process calls create_or_open(create = true)   *)
(* on the same name.                                                       *)
(***************************************************************************)
InitInUse ==
    \E n \in 1..MaxSlotCount, s \in 0..MaxSlotSize :
        /\ shm = FreshShm(n, s)
        /\ sems = FreshSems(n)
        /\ consumers = {"C1"}
        /\ handle = [p \in Procs |->
                        IF p = Producer THEN OwnerHandle(n, s)
                        ELSE IF p = "C1" THEN AttachedHandle(FreshShm(n, s))
                        ELSE NoHandle]
        /\ pc = [p \in Procs |-> "idle"]
        /\ loc = [p \in Procs |-> NoLocals]
        /\ written = <<>>
        /\ wrote = <<>>
        /\ delivered = <<>>
        /\ calls = 0
        /\ budget = LifeWrites
        /\ co = [p \in Procs |-> NoCall]
        /\ snap = NoSnap
        /\ unlinked = {}
        /\ failed = NoFailure
        /\ LibIdle
        /\ BrokerIdle

RecreateNext ==
    \/ CreateCall(Intruder)
    \/ ShmOpen(Intruder)
    \/ ShmSize(Intruder)
    \/ HdrMagic(Intruder)
    \/ HdrCount(Intruder)
    \/ HdrSlotSize(Intruder)
    \/ HdrIndices(Intruder)
    \/ ZeroSlots(Intruder)
    \/ SemCreate(Intruder)
    \/ RingNext

RecreateSpec == InitInUse /\ [][RecreateNext]_vars

\* one producer and one consumer on a ring in use, with semaphore waits
\* that a signal interrupts and waits that fail
IntrNext ==
    \/ \E p \in Procs : WaitInterrupted(p)
    \/ ErrNext

IntrSpec == InitInUse /\ [][IntrNext]_vars

(***************************************************************************)
(* The end of a ring's life: unlink_resources and ~SharedRing.  A name     *)
(* that is unlinked is gone for later opens; processes that hold the       *)
(* object keep using it.                                                   *)
(***************************************************************************)
\* Unlink without the owner_ test of line 187
Unlink_Any(p) ==
    /\ pc[p] = "idle"
    /\ handle[p].live
    /\ unlinked' = unlinked \cup {p}
    /\ IF handle[p].live
         THEN /\ sems' = [sems EXCEPT !.free.exists = FALSE]
              /\ pc' = [pc EXCEPT ![p] = "u_filled"]
         ELSE UNCHANGED <<sems, pc>>
    /\ UNCHANGED <<shm, handle, co, loc, written, wrote, delivered, calls,
                   consumers, budget, snap, failed, brokerVars, libVars>>

\* unlink_resources(): if (owner_) { sem_unlink(free); ... } -- the call and,
\* for an owner, its first sem_unlink; a handle may be asked any number of
\* times
Unlink(p) ==
    /\ pc[p] = "idle"
    /\ handle[p].live
    /\ unlinked' = unlinked \cup {p}
    /\ IF handle[p].owner_
         THEN /\ sems' = [sems EXCEPT !.free.exists = FALSE]
              /\ pc' = [pc EXCEPT ![p] = "u_filled"]
         ELSE UNCHANGED <<sems, pc>>
    /\ UNCHANGED <<shm, handle, co, loc, written, wrote, delivered, calls,
                   consumers, budget, snap, failed, brokerVars, libVars>>

\* UnlinkStep without the shm_unlink of line 191
UnlinkStep_KeepShm(p) ==
    /\ pc[p] \in {"u_filled", "u_mutex", "u_shm"}
    /\ CASE pc[p] = "u_filled" ->
              /\ sems' = [sems EXCEPT !.filled.exists = FALSE]
              /\ pc' = [pc EXCEPT ![p] = "u_mutex"]
              /\ UNCHANGED shm
         [] pc[p] = "u_mutex" ->
              /\ sems' = [sems EXCEPT !.mutex.exists = FALSE]
              /\ pc' = [pc EXCEPT ![p] = "u_shm"]
              /\ UNCHANGED shm
         [] pc[p] = "u_shm" ->
              /\ shm' = shm
              /\ pc' = [pc EXCEPT ![p] = "idle"]
              /\ UNCHANGED sems
    /\ UNCHANGED <<handle, co, ringState, snap>>

\* sem_unlink(sem_filled_name_); sem_unlink(sem_mutex_name_);
\* shm_unlink(shm_name_), one call a step
UnlinkStep(p) ==
    /\ pc[p] \in {"u_filled", "u_mutex", "u_shm"}
    /\ CASE pc[p] = "u_filled" ->
              /\ sems' = [sems EXCEPT !.filled.exists = FALSE]
              /\ pc' = [pc EXCEPT ![p] = "u_mutex"]
              /\ UNCHANGED shm
         [] pc[p] = "u_mutex" ->
              /\ sems' = [sems EXCEPT !.mutex.exists = FALSE]
              /\ pc' = [pc EXCEPT ![p] = "u_shm"]
              /\ UNCHANGED shm
         [] pc[p] = "u_shm" ->
              /\ shm' = [shm EXCEPT !.exists = FALSE]
              /\ pc' = [pc EXCEPT ![p] = "idle"]
              /\ UNCHANGED sems
    /\ UNCHANGED <<handle, co, ringState, snap>>

\* Drop with a destructor that shm_unlinks the name when owner_ is set
Drop_Unlinks(p) ==
    /\ handle[p].live
    /\ pc[p] \in {"idle", "r_filled"}
    /\ handle' = [handle EXCEPT ![p] = NoHandle]
    /\ pc' = [pc EXCEPT ![p] = "idle"]
    /\ co' = [co EXCEPT ![p] = [NoCall EXCEPT !.result = "dropped"]]
    /\ loc' = [loc EXCEPT ![p] = NoLocals]
    /\ shm' = [shm EXCEPT !.exists = ~ handle[p].owner_]
    /\ UNCHANGED <<sems, written, wrote, delivered, calls, consumers,
                   budget, snap, unlinked, failed, brokerVars, libVars>>

\* ~SharedRing(): sem_close x 3, munmap, close -- no unlink.  The handle is
\* dropped between calls, or while its process waits for a message.
Drop(p) ==
    /\ handle[p].live
    /\ pc[p] \in {"idle", "r_filled"}
    /\ handle' = [handle EXCEPT ![p] = NoHandle]
    /\ pc' = [pc EXCEPT ![p] = "idle"]
    /\ co' = [co EXCEPT ![p] = [NoCall EXCEPT !.result = "dropped"]]
    /\ loc' = [loc EXCEPT ![p] = NoLocals]
    /\ UNCHANGED <<shm, sems, written, wrote, delivered, calls, consumers,
                   budget, snap, unlinked, failed, brokerVars, libVars>>

\* no process holds the object behind the name
NoHolder == \A p \in Procs : ~ handle[p].live /\ pc[p] \in {"idle", "co_failed", "attach_failed"}

\* The name is created again only once it is gone and every handle on the
\* unlinked object has been dropped: the model keeps one object per name.
Recreate(p) ==
    /\ ~ shm.exists
    /\ NoHolder
    /\ CreateCall(p)

InitLife ==
    \E n \in 1..MaxSlotCount, s \in 0..MaxSlotSize :
        /\ shm = FreshShm(n, s)
        /\ sems = FreshSems(n)
        /\ consumers = {"C1", "C2"}
        /\ handle = [p \in Procs |->
                        IF p = Producer THEN OwnerHandle(n, s)
                        ELSE IF p = "C1" THEN AttachedHandle(FreshShm(n, s))
                        ELSE NoHandle]
        /\ pc = [p \in Procs |-> "idle"]
        /\ loc = [p \in Procs |-> NoLocals]
        /\ written = <<>>
        /\ wrote = <<>>
        /\ delivered = <<>>
        /\ calls = 0
        /\ budget = LifeWrites
        /\ co = [p \in Procs |-> NoCall]
        /\ snap = NoSnap
        /\ unlinked = {}
        /\ failed = NoFailure
        /\ LibIdle
        /\ BrokerIdle

\* The owner never unlinks: attachees unlink (a no-op) and handles are
\* dropped while the ring is written, read and attached to.
LifeNext ==
    \/ \E p \in AllConsumers : Unlink(p)
    \/ \E p \in Procs : Drop(p)
    \/ AttachCall("C2")
    \/ AttachGiveUp("C2")
    \/ \E p \in Procs : ShmOpen(p)
    \/ \E p \in Procs : ShmSize(p)
    \/ \E p \in Procs : CheckMagic(p)
    \/ \E p \in Procs : AdoptCount(p)
    \/ \E p \in Procs : AdoptSize(p)
    \/ \E p \in Procs : SemTry(p)
    \/ RingNext

LifeSpec == InitLife /\ [][LifeNext]_vars

\* The owner unlinks; a consumer attaches before, during and after; once
\* the name is gone and unheld another process creates it again.
UnlinkNext ==
    \/ Unlink(Producer)
    \/ UnlinkStep(Producer)
    \/ \E p \in Procs : Drop(p)
    \/ AttachCall("C2")
    \/ AttachGiveUp("C2")
    \/ Recreate(Intruder)
    \/ \E p \in Procs : ShmOpen(p)
    \/ \E p \in Procs : ShmSize(p)
    \/ \E p \in Procs : HdrMagic(p)
    \/ \E p \in Procs : HdrCount(p)
    \/ \E p \in Procs : HdrSlotSize(p)
    \/ \E p \in Procs : HdrIndices(p)
    \/ \E p \in Procs : ZeroSlots(p)
    \/ \E p \in Procs : SemCreate(p)
    \/ \E p \in Procs : CheckMagic(p)
    \/ \E p \in Procs : AdoptCount(p)
    \/ \E p \in Procs : AdoptSize(p)
    \/ \E p \in Procs : SemTry(p)

UnlinkSpec == InitLife /\ [][UnlinkNext]_vars

\* The owner calls unlink_resources, any number of times, on its handle
\* while another process calls create_or_open(create = true) on the same
\* name: before, between and after the owner's four unlink calls.
TeardownNext ==
    \/ Unlink(Producer)
    \/ UnlinkStep(Producer)
    \/ CreateCall(Intruder)
    \/ ShmOpen(Intruder)
    \/ ShmSize(Intruder)
    \/ HdrMagic(Intruder)
    \/ HdrCount(Intruder)
    \/ HdrSlotSize(Intruder)
    \/ HdrIndices(Intruder)
    \/ ZeroSlots(Intruder)
    \/ SemCreate(Intruder)

TeardownSpec == InitLife /\ [][TeardownNext]_vars

\* create_or_open(name, n, s, false) with any requested n and s
OpenCall(p) ==
    /\ p \in AllConsumers
    /\ pc[p] \in {"idle", "co_failed"}
    /\ ~ handle[p].live
    /\ co[p].attempts < MaxOpens
    /\ \E n \in 1..MaxSlotCount, s \in 0..MaxSlotSize : Begin(p, n, s, FALSE)
    /\ UNCHANGED <<shm, sems, ringState, snap>>

\* Consumers attach to an existing ring with requests of every size, and
\* drop their handles.
OpenNext ==
    \/ \E p \in AllConsumers : OpenCall(p)
    \/ \E p \in AllConsumers : ShmOpen(p)
    \/ \E p \in AllConsumers : ShmSize(p)
    \/ \E p \in AllConsumers : CheckMagic(p)
    \/ \E p \in AllConsumers : AdoptCount(p)
    \/ \E p \in AllConsumers : AdoptSize(p)
    \/ \E p \in AllConsumers : SemTry(p)
    \/ \E p \in AllConsumers : Drop(p)

OpenSpec == InitLife /\ [][OpenNext]_vars

\* the owner's handle goes out of scope after its unlink_resources
OwnerDrop == Producer \in unlinked /\ Drop(Producer)

\* The owner writes, calls unlink_resources and drops its handle while an
\* attached consumer reads.  A wait of the consumer may fail, which nothing
\* in the program brings about.
GoneNext ==
    \/ Unlink(Producer)
    \/ UnlinkStep(Producer)
    \/ OwnerDrop
    \/ \E p \in AllConsumers : ReadWaitFilledFail(p)
    \/ RingNext

GoneSpec == InitLife /\ [][GoneNext]_vars

\* the owner and the consumer are each scheduled again and again; no wait
\* has to fail
FairGoneSpec ==
    /\ InitLife
    /\ [][GoneNext]_vars
    /\ WF_vars(Unlink(Producer) \/ UnlinkStep(Producer) \/ OwnerDrop
                 \/ WriteCall(Producer) \/ WriteStep(Producer))
    /\ \A c \in AllConsumers : WF_vars(ReadCall(c) \/ ReadStep(c))

(***************************************************************************)
(* The semaphore-open specification: the owner has mapped and initialised  *)
(* the region and is about to create the semaphores, at its own pace or    *)
(* never; a consumer attaches.  The consumer's steps are fair.             *)
(***************************************************************************)
InitMapped ==
    \E n \in 1..MaxSlotCount, s \in 0..MaxSlotSize :
        /\ shm = FreshShm(n, s)
        /\ sems = AbsentSems
        /\ consumers = {"C1"}
        /\ handle = [p \in Procs |->
                        IF p = Producer
                          THEN [NoHandle EXCEPT !.owner_ = TRUE,
                                                !.slot_count_ = n,
                                                !.slot_size_ = s,
                                                !.map_size_ = MapSize(n, s)]
                          ELSE NoHandle]
        /\ pc = [p \in Procs |-> IF p = Producer THEN "co_sem_free" ELSE "idle"]
        /\ loc = [p \in Procs |-> NoLocals]
        /\ written = <<>>
        /\ wrote = <<>>
        /\ delivered = <<>>
        /\ calls = 0
        /\ budget = 0
        /\ co = [p \in Procs |->
                    IF p = Producer
                      THEN [NoCall EXCEPT !.create = TRUE, !.attempts = 1]
                      ELSE NoCall]
        /\ snap = NoSnap
        /\ unlinked = {}
        /\ failed = NoFailure
        /\ LibIdle
        /\ BrokerIdle

SemNext ==
    \/ SemCreate(Producer)
    \/ AttachCall("C1")
    \/ AttachGiveUp("C1")
    \/ ShmOpen("C1")
    \/ ShmSize("C1")
    \/ CheckMagic("C1")
    \/ AdoptCount("C1")
    \/ AdoptSize("C1")
    \/ SemTry("C1")

SemSpec ==
    /\ InitMapped
    /\ [][SemNext]_vars
    /\ WF_vars(AttachStep("C1"))

(***************************************************************************)
(* Discovery daemon (ipc_daemon) and its clients.  The daemon is one       *)
(* thread: recvfrom, then for a REGISTER the two sendto loops around the   *)
(* push_back.  Every sendto is one step: the daemon's socket is blocking   *)
(* and the call has flags 0, so a sendto to a bound socket whose queue is  *)
(* full waits for room; a sendto to a path nobody is bound to fails and    *)
(* the daemon ignores the result.                                          *)
(***************************************************************************)
\* sendto(fd, m, .., 0, dest = d) can return
CanSend(d) == d \notin bound \/ Len(inbox[d]) < QueueLen

\* what a sendto that returns has done to the socket of d
Deliver(d, m) ==
    inbox' = IF d \in bound THEN [inbox EXCEPT ![d] = Append(@, m)] ELSE inbox

\* history: the sendto call of the request being handled
Logged(d, m) ==
    handled' = [handled EXCEPT ![Len(handled)].out =
                                   Append(@, [to |-> d, msg |-> m])]

\* recvfrom, the first token, and for REGISTER the three tokens after it;
\* anything else is reported as unrecognised and dropped
BrokerRecv ==
    /\ bk.pc = "recv"
    /\ dq # <<>>
    /\ LET msg == Head(dq)
           cmd == Token(msg, 1)
           key == Token(msg, 2)
       IN  /\ dq' = Tail(dq)
           /\ IF cmd = "REGISTER"
                THEN /\ bk' = [pc |-> "reply", key |-> key,
                               client_sock |-> Token(msg, 3),
                               shm |-> Token(msg, 4), i |-> 1]
                     /\ handled' = Append(handled,
                            [req |-> msg, before |-> registry[key],
                             after |-> registry[key], out |-> <<>>,
                             done |-> FALSE])
                ELSE /\ bk' = bk
                     /\ handled' = Append(handled,
                            [req |-> msg, before |-> registry[key],
                             after |-> registry[key], out |-> <<>>,
                             done |-> TRUE])
    /\ UNCHANGED <<registry, inbox, bound, cst, sent, ringVars, libVars>>

\* BrokerReply with a reply that carries "-" in place of p.shm
BrokerReply_NoShm ==
    /\ bk.pc = "reply"
    /\ LET vec == registry[bk.key]
       IN  IF bk.i <= Len(vec)
             THEN LET p == vec[bk.i]
                      reply == Join(<<"PEER", bk.key, p.sock, NoRing>>)
                  IN  /\ CanSend(bk.client_sock)
                      /\ Deliver(bk.client_sock, reply)
                      /\ Logged(bk.client_sock, reply)
                      /\ bk' = [bk EXCEPT !.i = @ + 1]
                      /\ UNCHANGED registry
             ELSE /\ registry' = [registry EXCEPT ![bk.key] =
                          Append(@, ClientInfo(bk.client_sock, bk.shm))]
                  /\ bk' = [bk EXCEPT !.pc = "notify", !.i = 1]
                  /\ handled' = [handled EXCEPT ![Len(handled)].after =
                          Append(vec, ClientInfo(bk.client_sock, bk.shm))]
                  /\ UNCHANGED inbox
    /\ UNCHANGED <<dq, bound, cst, sent, ringVars, libVars>>

\* for (p : vec) sendto(client_sock, "PEER key p.sock p.shm"), one
\* iteration a step, and after the last one vec.push_back(ci)
BrokerReply ==
    /\ bk.pc = "reply"
    /\ LET vec == registry[bk.key]
       IN  IF bk.i <= Len(vec)
             THEN LET p == vec[bk.i]
                      reply == Join(<<"PEER", bk.key, p.sock, p.shm>>)
                  IN  /\ CanSend(bk.client_sock)
                      /\ Deliver(bk.client_sock, reply)
                      /\ Logged(bk.client_sock, reply)
                      /\ bk' = [bk EXCEPT !.i = @ + 1]
                      /\ UNCHANGED registry
             ELSE /\ registry' = [registry EXCEPT ![bk.key] =
                          Append(@, ClientInfo(bk.client_sock, bk.shm))]
                  /\ bk' = [bk EXCEPT !.pc = "notify", !.i = 1]
                  /\ handled' = [handled EXCEPT ![Len(handled)].after =
                          Append(vec, ClientInfo(bk.client_sock, bk.shm))]
                  /\ UNCHANGED inbox
    /\ UNCHANGED <<dq, bound, cst, sent, ringVars, libVars>>

\* BrokerNotify without the test of line 259
BrokerNotify_NoSkip ==
    /\ bk.pc = "notify"
    /\ LET vec == registry[bk.key]
       IN  IF bk.i <= Len(vec)
             THEN LET p == vec[bk.i]
                      notify == Join(<<"PEER", bk.key, bk.client_sock, bk.shm>>)
                  IN  /\ CanSend(p.sock)
                      /\ Deliver(p.sock, notify)
                      /\ Logged(p.sock, notify)
                      /\ bk' = [bk EXCEPT !.i = @ + 1]
             ELSE /\ bk' = BrokerAtRecv
                  /\ handled' = [handled EXCEPT ![Len(handled)].done = TRUE]
                  /\ UNCHANGED inbox
    /\ UNCHANGED <<registry, dq, bound, cst, sent, ringVars, libVars>>

\* for (p : vec) { if (p.sock == client_sock) continue;
\* sendto(p.sock, "PEER key client_sock shm") }, one iteration a step; after
\* the last one the daemon is back at recvfrom
BrokerNotify ==
    /\ bk.pc = "notify"
    /\ LET vec == registry[bk.key]
       IN  IF bk.i <= Len(vec)
             THEN LET p == vec[bk.i]
                      notify == Join(<<"PEER", bk.key, bk.client_sock, bk.shm>>)
                  IN  IF p.sock = bk.client_sock
                        THEN /\ bk' = [bk EXCEPT !.i = @ + 1]
                             /\ UNCHANGED <<inbox, handled>>
                        ELSE /\ CanSend(p.sock)
                             /\ Deliver(p.sock, notify)
                             /\ Logged(p.sock, notify)
                             /\ bk' = [bk EXCEPT !.i = @ + 1]
             ELSE /\ bk' = BrokerAtRecv
                  /\ handled' = [handled EXCEPT ![Len(handled)].done = TRUE]
                  /\ UNCHANGED inbox
    /\ UNCHANGED <<registry, dq, bound, cst, sent, ringVars, libVars>>

\* a client creates its socket and binds it to its path
ClientStart(c) ==
    /\ cst[c] = "start"
    /\ bound' = bound \cup {c}
    /\ cst' = [cst EXCEPT ![c] = "up"]
    /\ UNCHANGED <<registry, dq, inbox, bk, handled, sent, ringVars, libVars>>

\* sendto(daemon, "REGISTER " + service + " " + client_sock + " " + shm)
ClientRegister(c, k) ==
    /\ cst[c] = "up"
    /\ sent < MaxRequests
    /\ dq' = Append(dq, Join(<<"REGISTER", k, c, ShmOf(c)>>))
    /\ sent' = sent + 1
    /\ UNCHANGED <<registry, inbox, bk, handled, bound, cst, ringVars, libVars>>

\* SocketToDaemon::Deregister: sendto(daemon, "DEREGISTER " + service + " "
\* + client_sock_ + " " + shm)
ClientDeregister(c, k) ==
    /\ c \in ProducerSocks
    /\ cst[c] = "up"
    /\ sent < MaxRequests
    /\ dq' = Append(dq, Join(<<"DEREGISTER", k, c, ShmOf(c)>>))
    /\ sent' = sent + 1
    /\ UNCHANGED <<registry, inbox, bk, handled, bound, cst, ringVars, libVars>>

\* The consumer's recvfrom.  On a PEER with a ring it opens the ring and
\* stays in the read_message loop (open == TRUE), or gives up after its
\* attempts and receives again.  The producer never calls recvfrom.
ClientRecv(c, open) ==
    /\ c \in ConsumerSocks
    /\ cst[c] = "up"
    /\ inbox[c] # <<>>
    /\ inbox' = [inbox EXCEPT ![c] = Tail(@)]
    /\ LET msg == Head(inbox[c])
       IN  cst' = [cst EXCEPT ![c] =
                      IF /\ Token(msg, 1) = "PEER"
                         /\ Token(msg, 4) # NoRing
                         /\ open
                        THEN "reading" ELSE "up"]
    /\ UNCHANGED <<registry, dq, bk, handled, bound, sent, ringVars, libVars>>

\* ~SocketToDaemon(): the producer's socket is closed, its queue is gone and
\* a sendto to its path fails.  The consumer's loop has no exit.
ClientExit(c) ==
    /\ c \in ProducerSocks
    /\ cst[c] = "up"
    /\ bound' = bound \ {c}
    /\ inbox' = [inbox EXCEPT ![c] = <<>>]
    /\ cst' = [cst EXCEPT ![c] = "gone"]
    /\ UNCHANGED <<registry, dq, bk, handled, sent, ringVars, libVars>>

BrokerNext ==
    \/ BrokerRecv
    \/ BrokerReply
    \/ BrokerNotify
    \/ \E c \in Clients : ClientStart(c)
    \/ \E c \in Clients, k \in Keys : ClientRegister(c, k)
    \/ \E c \in Clients, k \in Keys : ClientDeregister(c, k)
    \/ \E c \in Clients, open \in BOOLEAN : ClientRecv(c, open)
    \/ \E c \in Clients : ClientExit(c)

BrokerSpec == InitNothing({"C1"}) /\ [][BrokerNext]_vars

(***************************************************************************)
(* The programs together: producer main (create the ring, bind, REGISTER,  *)
(* write loop, DEREGISTER, unlink_resources, return), consumer main (bind, *)
(* REGISTER, recvfrom loop, attach loop, read loop), ipc_daemon, and a     *)
(* second producer with a ring of its own.  Socket "a" is the producer     *)
(* process, socket "b" the consumer process C1.                            *)
(***************************************************************************)
OtherProducer == "d"     \* the socket of a second producer process
OtherRing == "/r2"       \* the ring the second producer created
OtherConsumer == "c"     \* the socket of a second consumer process
Service == "demo"        \* the key both programs register under
AppClients == {"a", "b", OtherConsumer, OtherProducer}
Slots == MaxSlotCount    \* SLOTS of producer main
SlotSz == MaxSlotSize    \* SLOT_SZ of producer main

InitApp ==
    /\ shm = AbsentShm
    /\ sems = AbsentSems
    /\ consumers = {"C1"}
    /\ handle = [p \in Procs |-> NoHandle]
    /\ pc = [p \in Procs |-> "idle"]
    /\ loc = [p \in Procs |-> NoLocals]
    /\ written = <<>>
    /\ wrote = <<>>
    /\ delivered = <<>>
    /\ calls = 0
    /\ budget = LifeWrites
    /\ co = [p \in Procs |-> NoCall]
    /\ snap = NoSnap
    /\ unlinked = {}
    /\ failed = NoFailure
    /\ LibIdle
    /\ registry = [k \in Keys |-> <<>>]
    /\ dq = <<>>
    /\ inbox = [c \in AppClients |-> <<>>]
    /\ bk = BrokerAtRecv
    /\ handled = <<>>
    /\ bound = {}
    /\ cst = [c \in AppClients |-> "start"]
    /\ sent = 0

\* ProducerRegister without waiting for create_or_open: the REGISTER goes
\* out as soon as the call has begun
ProducerRegister_Early ==
    /\ cst["a"] = "start"
    /\ co[Producer].create
    /\ dq' = Append(dq, Join(<<"REGISTER", Service, "a", ShmOf("a")>>))
    /\ bound' = bound \cup {"a"}
    /\ cst' = [cst EXCEPT !["a"] = "registered"]
    /\ sent' = sent + 1
    /\ UNCHANGED <<registry, inbox, bk, handled, ringVars, libVars>>

\* auto ring = SharedRing::create_or_open(shmname, SLOTS, SLOT_SZ, true)
ProducerCreate ==
    /\ cst["a"] = "start"
    /\ pc[Producer] = "idle"
    /\ co[Producer].result = "none"
    /\ Begin(Producer, Slots, SlotSz, TRUE)
    /\ UNCHANGED <<shm, sems, ringState, snap>>

\* if (!ring) return 1 has not been taken; SocketToDaemon
\* connection_to_daemon; connection_to_daemon.Register("demo", shmname)
ProducerRegister ==
    /\ cst["a"] = "start"
    /\ handle[Producer].live
    /\ dq' = Append(dq, Join(<<"REGISTER", Service, "a", ShmOf("a")>>))
    /\ bound' = bound \cup {"a"}
    /\ cst' = [cst EXCEPT !["a"] = "registered"]
    /\ sent' = sent + 1
    /\ UNCHANGED <<registry, inbox, bk, handled, ringVars, libVars>>

\* for (i < 120 && !terminate) ring->write_message(...)
ProducerWrite ==
    /\ cst["a"] = "registered"
    /\ WriteCall(Producer) \/ WriteStep(Producer)

\* the loop has ended, by its count or by the signal handler's flag:
\* connection_to_daemon.Deregister("demo", shmname)
ProducerDeregister ==
    /\ cst["a"] = "registered"
    /\ pc[Producer] = "idle"
    /\ dq' = Append(dq, Join(<<"DEREGISTER", Service, "a", ShmOf("a")>>))
    /\ cst' = [cst EXCEPT !["a"] = "deregistered"]
    /\ sent' = sent + 1
    /\ UNCHANGED <<registry, inbox, bk, handled, bound, ringVars, libVars>>

\* ring->unlink_resources()
ProducerUnlink ==
    /\ cst["a"] = "deregistered"
    /\ \/ Producer \notin unlinked /\ Unlink(Producer)
       \/ UnlinkStep(Producer)

\* return 0: ~SocketToDaemon closes the socket and removes its path, then
\* ~SharedRing closes the ring
ProducerReturn ==
    /\ cst["a"] = "deregistered"
    /\ Producer \in unlinked
    /\ pc[Producer] = "idle"
    /\ bound' = bound \ {"a"}
    /\ inbox' = [inbox EXCEPT !["a"] = <<>>]
    /\ cst' = [cst EXCEPT !["a"] = "gone"]
    /\ handle' = [handle EXCEPT ![Producer] = NoHandle]
    /\ co' = [co EXCEPT ![Producer] = [NoCall EXCEPT !.result = "dropped"]]
    /\ UNCHANGED <<registry, dq, bk, handled, sent, shm, sems, pc, loc,
                   consumers, written, wrote, delivered, calls, budget, snap,
                   unlinked, failed, libVars>>

\* the second producer has created its ring, binds and sends its REGISTER
OtherRegister ==
    /\ cst[OtherProducer] = "start"
    /\ dq' = Append(dq, Join(<<"REGISTER", Service, OtherProducer, OtherRing>>))
    /\ bound' = bound \cup {OtherProducer}
    /\ cst' = [cst EXCEPT ![OtherProducer] = "registered"]
    /\ sent' = sent + 1
    /\ UNCHANGED <<registry, inbox, bk, handled, ringVars, libVars>>

\* a second consumer binds and sends its REGISTER
PeerRegister ==
    /\ cst[OtherConsumer] = "start"
    /\ dq' = Append(dq, Join(<<"REGISTER", Service, OtherConsumer, NoRing>>))
    /\ bound' = bound \cup {OtherConsumer}
    /\ cst' = [cst EXCEPT ![OtherConsumer] = "recv"]
    /\ sent' = sent + 1
    /\ UNCHANGED <<registry, inbox, bk, handled, ringVars, libVars>>

\* the second consumer's recvfrom; what it does with a ring is not modelled
PeerRecv ==
    /\ cst[OtherConsumer] = "recv"
    /\ inbox[OtherConsumer] # <<>>
    /\ inbox' = [inbox EXCEPT ![OtherConsumer] = Tail(@)]
    /\ UNCHANGED <<registry, dq, bk, handled, bound, cst, sent, ringVars, libVars>>

\* socket, bind, sendto(daemon, "REGISTER demo <client_sock> -")
ConsumerRegister ==
    /\ cst["b"] = "start"
    /\ dq' = Append(dq, Join(<<"REGISTER", Service, "b", NoRing>>))
    /\ bound' = bound \cup {"b"}
    /\ cst' = [cst EXCEPT !["b"] = "recv"]
    /\ sent' = sent + 1
    /\ UNCHANGED <<registry, inbox, bk, handled, ringVars, libVars>>

\* ConsumerRecv without the test peer_shm != "-" of line 56
ConsumerRecv_NoTest ==
    /\ cst["b"] = "recv"
    /\ inbox["b"] # <<>>
    /\ inbox' = [inbox EXCEPT !["b"] = Tail(@)]
    /\ LET msg == Head(inbox["b"])
       IN  IF Token(msg, 1) = "PEER"
             THEN IF Token(msg, 4) = ShmOf("a")
                    THEN cst' = [cst EXCEPT !["b"] = "attach"]
                    ELSE cst' = [cst EXCEPT !["b"] = "other"]
             ELSE cst' = cst
    /\ co' = [co EXCEPT !["C1"] = NoCall]
    /\ UNCHANGED <<registry, dq, bk, handled, bound, sent, shm, sems, handle,
                   pc, loc, consumers, written, wrote, delivered, calls,
                   budget, snap, unlinked, failed, libVars>>

\* recvfrom; if (cmd == "PEER") { ... if (peer_shm != "-") the attach loop.
\* The second producer's ring is not modelled: the consumer attaches to it
\* and stays in its read loop ("other").
ConsumerRecv ==
    /\ cst["b"] = "recv"
    /\ inbox["b"] # <<>>
    /\ inbox' = [inbox EXCEPT !["b"] = Tail(@)]
    /\ LET msg == Head(inbox["b"])
       IN  IF Token(msg, 1) = "PEER" /\ Token(msg, 4) # NoRing
             THEN IF Token(msg, 4) = ShmOf("a")
                    THEN cst' = [cst EXCEPT !["b"] = "attach"]
                    ELSE cst' = [cst EXCEPT !["b"] = "other"]
             ELSE cst' = cst
    /\ co' = [co EXCEPT !["C1"] = NoCall]
    /\ UNCHANGED <<registry, dq, bk, handled, bound, sent, shm, sems, handle,
                   pc, loc, consumers, written, wrote, delivered, calls,
                   budget, snap, unlinked, failed, libVars>>

\* "Failed to open shared ring after retries"; continue
ConsumerContinue ==
    /\ pc["C1"] = "attach_failed"
    /\ cst' = [cst EXCEPT !["b"] = "recv"]
    /\ pc' = [pc EXCEPT !["C1"] = "idle"]
    /\ UNCHANGED <<registry, dq, inbox, bk, handled, bound, sent, shm, sems,
                   handle, co, loc, consumers, written, wrote, delivered,
                   calls, budget, snap, unlinked, failed, libVars>>

\* the attach loop, its failure, and, once ring_ptr is set,
\* while (read_message(b))
ConsumerRing ==
    /\ cst["b"] = "attach"
    /\ \/ AttachCall("C1")
       \/ AttachStep("C1")
       \/ AttachGiveUp("C1")
       \/ ConsumerContinue
       \/ ReadCall("C1")
       \/ ReadStep("C1")

\* The consumer installs no signal handler and its loop has no exit: the
\* process ends when a signal ends it, wherever it is.  Its socket and its
\* mapping are closed by the kernel.
ConsumerKilled ==
    /\ cst["b"] \in {"recv", "attach", "other"}
    /\ pc["C1"] \in {"idle", "r_filled", "attach_failed", "co_failed"}
    /\ cst' = [cst EXCEPT !["b"] = "gone"]
    /\ bound' = bound \ {"b"}
    /\ inbox' = [inbox EXCEPT !["b"] = <<>>]
    /\ handle' = [handle EXCEPT !["C1"] = NoHandle]
    /\ pc' = [pc EXCEPT !["C1"] = "killed"]
    /\ UNCHANGED <<registry, dq, bk, handled, sent, shm, sems, co, loc,
                   consumers, written, wrote, delivered, calls, budget, snap,
                   unlinked, failed, libVars>>

\* The producer in its loop, the second producer, the consumer and the
\* daemon: discovery and the use of the ring.
AppNext ==
    \/ ProducerCreate
    \/ CreateStep(Producer)
    \/ ProducerRegister
    \/ ProducerWrite
    \/ OtherRegister
    \/ PeerRegister
    \/ PeerRecv
    \/ ConsumerRegister
    \/ ConsumerRecv
    \/ ConsumerRing
    \/ BrokerRecv
    \/ BrokerReply
    \/ BrokerNotify

AppSpec == InitApp /\ [][AppNext]_vars

ProducerStep ==
    ProducerCreate \/ CreateStep(Producer) \/ ProducerRegister \/ ProducerWrite

ConsumerStep == ConsumerRegister \/ ConsumerRecv \/ ConsumerRing

DaemonStep == BrokerRecv \/ BrokerReply \/ BrokerNotify

\* every process is scheduled again and again
FairAppSpec ==
    /\ InitApp
    /\ [][AppNext]_vars
    /\ WF_vars(ProducerStep)
    /\ WF_vars(OtherRegister)
    /\ WF_vars(PeerRegister \/ PeerRecv)
    /\ WF_vars(ConsumerStep)
    /\ WF_vars(DaemonStep)

\* The producer from its start to its return and the consumer from its
\* start to its end, as far as they talk to the daemon: the consumer's
\* calls on the ring send nothing and are left out.
SessionNext ==
    \/ ProducerCreate
    \/ CreateStep(Producer)
    \/ ProducerRegister
    \/ ProducerWrite
    \/ ProducerDeregister
    \/ ProducerUnlink
    \/ ProducerReturn
    \/ ConsumerRegister
    \/ ConsumerRecv
    \/ ConsumerKilled
    \/ BrokerRecv
    \/ BrokerReply
    \/ BrokerNotify

SessionSpec == InitApp /\ [][SessionNext]_vars

(***************************************************************************)
(* The names create_or_open derives from the ring name.  A name is the     *)
(* sequence of its characters.                                             *)
(***************************************************************************)
MaxNameLen == 3       \* longest ring name tried

Chars == {"/", "_", "r", "1"}

\* the ring names of 1 .. MaxNameLen characters
Names == UNION {[1..n -> Chars] : n \in 1..MaxNameLen}

FreeSuffix == <<"_", "f", "r", "e", "e">>
FilledSuffix == <<"_", "f", "i", "l", "l", "e", "d">>
MutexSuffix == <<"_", "m", "u", "t", "e", "x">>

\* for (char &c : s) if (c == '/') c = '_';
Underscored(s) == [i \in 1..Len(s) |-> IF s[i] = "/" THEN "_" ELSE s[i]]

\* sanitize_sem that leaves a leading '/' of base alone and prefixes one
\* only when base has none
sanitize_sem_KeepLeading(base) ==
    IF base # <<>> /\ base[1] = "/"
    THEN <<"/">> \o Underscored(Tail(base))
    ELSE <<"/">> \o Underscored(base)

\* std::string s = base; every '/' of s becomes '_'; return "/" + s
sanitize_sem(base) == <<"/">> \o Underscored(base)

\* create_or_open up to init_map, for ring k: shm_name_ = name and the three
\* semaphore names sanitize_sem(name + suffix)
DeriveNames(k) ==
    /\ named[k].shm_name_ = <<>>
    /\ named' = [named EXCEPT ![k] =
           [name |-> @.name,
            shm_name_ |-> @.name,
            sem_free_name_ |-> sanitize_sem(@.name \o FreeSuffix),
            sem_filled_name_ |-> sanitize_sem(@.name \o FilledSuffix),
            sem_mutex_name_ |-> sanitize_sem(@.name \o MutexSuffix)]]
    /\ UNCHANGED <<ringVars, brokerVars, twin, circ, thr>>

\* two SharedRing objects about to be made, under any two names
InitNames ==
    /\ RingAbsent({"C1"})
    /\ named \in [RingIds -> {[NoNames EXCEPT !.name = n] : n \in Names}]
    /\ twin = Unused
    /\ circ = Unused
    /\ thr = Unused

NameNext == \E k \in RingIds : DeriveNames(k)

NameSpec == InitNames /\ [][NameNext]_vars

(***************************************************************************)
(* The two SharedRing implementations side by side: src/ipc/               *)
(* shared_ring.cpp and src/unnamed/part_001.  One caller makes one call at *)
(* a time on a ring r = [shm, sems, slot_size_] nobody else uses, so a     *)
(* call is a function of the ring, its input and the outcome of its first  *)
(* sem_wait: it returns, or it stays in sem_wait on a semaphore of value 0.*)
(***************************************************************************)
\* the ring with one taken from (dn) and one posted to (up) a semaphore
Taken(r, dn) == [r EXCEPT !.sems[dn].value = @ - 1]
Posted(r, up) == [r EXCEPT !.sems[up].value = @ + 1]

\* memcpy of the length and of the payload into the slot at tail, and
\* hdr_->tail = (idx + 1) % hdr_->slot_count
Stored(r, data) ==
    LET idx == r.shm.hdr.tail
        off == SlotOffset(idx, r.slot_size_)
    IN [r EXCEPT
           !.shm.slots = Poke(Poke(@, off, LenBytes(Len(data))),
                              off + LenPrefix, data),
           !.shm.hdr.tail = (idx + 1) % r.shm.hdr.slot_count]

\* memcpy of the length and of the payload out of the slot at head
Loaded(r) ==
    LET off == SlotOffset(r.shm.hdr.head, r.slot_size_)
    IN Bytes(r.shm.slots, off + LenPrefix,
             DecodeLen(Bytes(r.shm.slots, off, LenPrefix)))

\* hdr_->head = (idx + 1) % hdr_->slot_count
Advanced(r) ==
    [r EXCEPT !.shm.hdr.head = (@ + 1) % r.shm.hdr.slot_count]

\* a call that returned ret, with out in its vector, and left the ring r
Returned(ret, out, r) == [ret |-> ret, out |-> out, ring |-> r]

\* a call that stays in sem_wait
Blocked(r) == [ret |-> "blocked", out |-> <<>>, ring |-> r]

\* lines 139-151 of part_001 and 218-227 of shared_ring.cpp: mutex taken,
\* the slot written, mutex and filled posted, return true
WriteBody(r, data) ==
    IF r.sems.mutex.value = 0 THEN Blocked(r)
    ELSE Returned("true", <<>>,
             Posted(Posted(Stored(Taken(r, "mutex"), data), "mutex"),
                    "filled"))

\* lines 156-167 of part_001 and 238-251 of shared_ring.cpp: mutex taken,
\* the slot read, mutex and free posted, return true
ReadBody(r) ==
    IF r.sems.mutex.value = 0 THEN Blocked(r)
    ELSE Returned("true", Loaded(r),
             Posted(Posted(Advanced(Taken(r, "mutex")), "mutex"), "free"))

\* write_message of shared_ring.cpp; fail: the wait on free returns -1
write_message(r, data, fail) ==
    IF Len(data) > r.slot_size_ THEN Returned("false", <<>>, r)
    ELSE IF fail THEN Returned("false", <<>>, r)
    ELSE IF r.sems.free.value = 0 THEN Blocked(r)
    ELSE WriteBody(Taken(r, "free"), data)

\* read_message of shared_ring.cpp; fail: the wait on filled returns -1
read_message(r, fail) ==
    IF fail THEN Returned("false", <<>>, r)
    ELSE IF r.sems.filled.value = 0 THEN Blocked(r)
    ELSE ReadBody(Taken(r, "filled"))

\* write_message of part_001: if (!sem_wait_intr(sem_free_)) return false
\* returns false when sem_wait returned 0 and goes on when it returned -1
write_message_1(r, data, fail) ==
    IF Len(data) > r.slot_size_ THEN Returned("false", <<>>, r)
    ELSE IF fail THEN WriteBody(r, data)
    ELSE IF r.sems.free.value = 0 THEN Blocked(r)
    ELSE Returned("false", <<>>, Taken(r, "free"))

\* read_message of part_001: if (!sem_wait_intr(sem_filled_)) return false
read_message_1(r, fail) ==
    IF fail THEN ReadBody(r)
    ELSE IF r.sems.filled.value = 0 THEN Blocked(r)
    ELSE Returned("false", <<>>, Taken(r, "filled"))

\* the payloads tried: len bytes of value 1 or 2
TwinData(r) ==
    {Payload(v, len) : v \in 1..2, len \in 0..(r.slot_size_ + 1)}

\* one write_message call made by both implementations on the ring as
\* shared_ring.cpp left it
TwinWrite ==
    \E fail \in BOOLEAN : \E data \in TwinData(twin.ring) :
        /\ twin' = [op |-> "write", data |-> data, fail |-> fail,
                    from |-> twin.ring,
                    a |-> write_message(twin.ring, data, fail),
                    b |-> write_message_1(twin.ring, data, fail),
                    ring |-> write_message(twin.ring, data, fail).ring]
        /\ UNCHANGED <<ringVars, brokerVars, named, circ, thr>>

\* one read_message call made by both implementations
TwinRead ==
    \E fail \in BOOLEAN :
        /\ twin' = [op |-> "read", data |-> <<>>, fail |-> fail,
                    from |-> twin.ring,
                    a |-> read_message(twin.ring, fail),
                    b |-> read_message_1(twin.ring, fail),
                    ring |-> read_message(twin.ring, fail).ring]
        /\ UNCHANGED <<ringVars, brokerVars, named, circ, thr>>

\* a ring just created with (n, s), its owner about to call
InitTwin ==
    /\ RingAbsent({"C1"})
    /\ named = Unused
    /\ \E n \in 1..MaxSlotCount, s \in 0..MaxSlotSize :
           LET r == [shm |-> FreshShm(n, s), sems |-> FreshSems(n),
                     slot_size_ |-> s]
           IN twin = [op |-> "none", data |-> <<>>, fail |-> FALSE,
                      from |-> r, a |-> Blocked(r), b |-> Blocked(r),
                      ring |-> r]
    /\ circ = Unused
    /\ thr = Unused

TwinNext == TwinWrite \/ TwinRead

TwinSpec == InitTwin /\ [][TwinNext]_vars

(***************************************************************************)
(* The multithreaded program of src/unnamed/part_000: one thread pushes    *)
(* 0 .. 15 into the CircularBuffer, another pops 16 times.  push and pop   *)
(* hold read_write_mutex from their first statement to their return, so    *)
(* each call is one step; the sleeps between calls order nothing.          *)
(***************************************************************************)
Pushes == 16      \* for (int i = 0; i < 16; ++i) of producer
Pops == 16        \* for (int i = 0; i < 16; ++i) of consumer

\* push(newData): underlying_array_[write_index_] = newData;
\* write_index_ = (1 + write_index_) % buffer_size_; return true
push(b, newData) ==
    [ret |-> TRUE,
     buf |-> [b EXCEPT !.underlying_array_[b.write_index_] = newData,
                       !.write_index_ = (1 + @) % buffer_size_]]

\* pop(existingData): when the slot at read_index_ is not SENTINELVALUE it
\* is returned, set to SENTINELVALUE and read_index_ moves on; else false
pop(b) ==
    IF b.underlying_array_[b.read_index_] # SENTINELVALUE
    THEN [ret |-> TRUE,
          existingData |-> b.underlying_array_[b.read_index_],
          buf |-> [b EXCEPT
                      !.underlying_array_[b.read_index_] = SENTINELVALUE,
                      !.read_index_ = (1 + @) % buffer_size_]]
    ELSE [ret |-> FALSE, existingData |-> SENTINELVALUE, buf |-> b]

\* one iteration of producer: bool pushed = buffer->push(i)
ProducerPush ==
    /\ thr.producer < Pushes
    /\ circ' = push(circ, thr.producer).buf
    /\ thr' = [thr EXCEPT !.producer = @ + 1]
    /\ UNCHANGED <<ringVars, brokerVars, named, twin>>

\* one iteration of consumer: bool popped = buffer->pop(newData)
ConsumerPop ==
    /\ thr.consumer < Pops
    /\ circ' = pop(circ).buf
    /\ thr' = [thr EXCEPT
                  !.consumer = @ + 1,
                  !.popped = IF pop(circ).ret
                             THEN Append(@, pop(circ).existingData)
                             ELSE @]
    /\ UNCHANGED <<ringVars, brokerVars, named, twin>>

\* main has started both threads
InitBuffer ==
    /\ RingAbsent({"C1"})
    /\ named = Unused
    /\ twin = Unused
    /\ circ = NewBuffer
    /\ thr = NoThreads

BufferNext == ProducerPush \/ ConsumerPop

BufferSpec == InitBuffer /\ [][BufferNext]_vars

(***************************************************************************)
(* Histories and derived quantities used by the properties.                *)
(***************************************************************************)
IsPrefix(a, b) == Len(a) <= Len(b) /\ \A i \in 1..Len(a) : a[i] = b[i]

DataOf(d) == [i \in 1..Len(d) |-> d[i].data]

\* consumers that hold a filled token they have not yet turned into a free one
ReadersInFlight ==
    {c \in Procs :
        pc[c] \in {"r_mutex", "r_slot", "r_head", "r_post_mutex", "r_post_free"}}

\* messages written and not yet returned by a read_message
Unread == Len(wrote) - Len(delivered)

\* messages written and not yet claimed by any read_message call
Unclaimed == Unread - Cardinality(ReadersInFlight)

SingleConsumer == consumers = {"C1"}

(***************************************************************************)
(* C1: with one producer and one consumer, the payloads returned by the    *)
(* successful read_message calls are the payloads of the write_message     *)
(* calls that returned true, in write order: what has been read is always  *)
(* a prefix of what has been written, and when no step is left to take     *)
(* everything written has been read.                                       *)
(***************************************************************************)
C1_Fifo ==
    SingleConsumer =>
        /\ IsPrefix(DataOf(delivered), wrote)
        /\ IsPrefix(wrote, written)
        /\ (~ ENABLED Next) => DataOf(delivered) = wrote

\* three messages have been read back through a ring of a single slot
C1_Witness ==
    /\ SingleConsumer
    /\ Len(delivered) = 3
    /\ Len(delivered[2].data) > 0
    /\ shm.hdr.slot_count = 1

(***************************************************************************)
(* C2 (as stated): after write_message(m) returned true on a ring that was *)
(* not full, the next read_message to return gives out = m.                *)
(***************************************************************************)
C2_Original ==
    SingleConsumer =>
        \A i \in 1..Len(delivered) :
            (i = 1 \/ delivered[i - 1].nw < delivered[i].nw)
                => delivered[i].data = wrote[delivered[i].nw]

(***************************************************************************)
(* C2 (amended): write_message(m) with len(m) <= slot_size (len(m) =       *)
(* slot_size included) never returns false, and when the ring held no      *)
(* other unread message as that write returned, the next read_message to   *)
(* return gives out = m byte for byte.                                     *)
(***************************************************************************)
C2_RoundTrip ==
    /\ loc[Producer].ret = "false"
          => loc[Producer].len > handle[Producer].slot_size_
    /\ SingleConsumer =>
        \A i \in 1..Len(delivered) :
            (delivered[i].nw = i /\ (i = 1 \/ delivered[i - 1].nw < i))
                => delivered[i].data = wrote[i]

\* a payload of exactly slot_size > 0 bytes went through an empty ring
C2_Witness ==
    /\ SingleConsumer
    /\ Len(delivered) = 2
    /\ delivered[2].nw = 2
    /\ delivered[1].nw = 1
    /\ Len(delivered[2].data) = shm.hdr.slot_size
    /\ shm.hdr.slot_size > 0

(***************************************************************************)
(* C3: with one producer and two consumers, every message is returned by   *)
(* exactly one read_message: the k-th read to take a slot returns the      *)
(* k-th written payload, each consumer receives its messages in write      *)
(* order, and when no step is left to take every message has been read.    *)
(***************************************************************************)
C3_TwoConsumers ==
    consumers = {"C1", "C2"} =>
        /\ \A i \in 1..Len(delivered) :
              /\ delivered[i].seq \in 1..Len(wrote)
              /\ delivered[i].data = wrote[delivered[i].seq]
        /\ \A i, j \in 1..Len(delivered) :
              i < j => /\ delivered[i].seq # delivered[j].seq
                       /\ delivered[i].who = delivered[j].who
                            => delivered[i].seq < delivered[j].seq
        /\ (~ ENABLED Next) => Len(delivered) = Len(wrote)

\* both consumers have returned messages, the later message first
C3_Witness ==
    /\ Len(delivered) = 3
    /\ delivered[1].who # delivered[2].who
    /\ delivered[1].seq = 2
    /\ Len(delivered[1].data) > 0

(***************************************************************************)
(* C4: on a fresh ring of N slots, after k write_message calls have        *)
(* returned true and no read_message has been called, the filled           *)
(* semaphore is k and the free semaphore is N - k.                         *)
(***************************************************************************)
C4_Counts ==
    (/\ pc[Producer] = "idle"
     /\ delivered = <<>>
     /\ \A c \in consumers : pc[c] = "idle")
        => /\ sems.filled.value = Len(wrote)
           /\ sems.free.value = shm.hdr.slot_count - Len(wrote)
           /\ Len(wrote) <= shm.hdr.slot_count

\* the ring has been filled to capacity with nothing read
C4_Witness ==
    /\ pc[Producer] = "idle"
    /\ delivered = <<>>
    /\ \A c \in consumers : pc[c] = "idle"
    /\ Len(wrote) = 2
    /\ sems.free.value = 0

(***************************************************************************)
(* C5: write_message with len > slot_size returns false and leaves the     *)
(* region (head, tail, slots) and the three semaphores as they were.       *)
(***************************************************************************)
C5_Oversize ==
    [][\A k \in 1..MaxWrites :
         (/\ calls' = k /\ calls = k - 1
          /\ loc'[Producer].len > handle[Producer].slot_size_)
            => /\ pc'[Producer] = "idle"
               /\ loc'[Producer].ret = "false"
               /\ shm' = shm
               /\ sems' = sems
               /\ wrote' = wrote /\ written' = written]_vars

\* an oversized write was refused and a later valid write was read back
C5_Witness ==
    /\ calls = 2
    /\ Len(wrote) = 1
    /\ Len(delivered) = 1
    /\ delivered[1].data = Payload(2, shm.hdr.slot_size)
    /\ shm.hdr.slot_size > 0

(***************************************************************************)
(* C6: while the ring holds N unread messages, a write_message call        *)
(* waiting on free does not move and tail and the slots stay as they are;  *)
(* as soon as fewer than N messages are unread the waiting write can take  *)
(* its free token; under fair scheduling it then returns true, and every   *)
(* message written after the ring wrapped is read back in its place.       *)
(***************************************************************************)
Full == Unread = shm.hdr.slot_count

C7_EmptyBlocks ==
    /\ [][\A c \in consumers :
            (Unclaimed = 0 /\ pc[c] = "r_filled")
                => /\ pc'[c] = "r_filled"
                   /\ loc'[c] = loc[c]
                   /\ ReadersInFlight = {} => shm'.hdr.head = shm.hdr.head]_vars
    /\ [](\A c \in consumers :
            pc[c] = "r_filled"
                => /\ Unclaimed = 0 => sems.filled.value = 0
                   /\ Unclaimed > 0 => ENABLED ReadWaitFilled(c))
    /\ \A k \in 1..MaxWrites :
          (SingleConsumer /\ pc["C1"] = "r_filled" /\ Len(delivered) = k - 1
             /\ Len(wrote) >= k)
            ~> (Len(delivered) >= k /\ delivered[k].data = wrote[k])

\* a read that was waiting on an empty ring has returned the one message
\* written meanwhile
C7_Witness ==
    /\ SingleConsumer
    /\ Len(delivered) = 1
    /\ delivered[1].nw = 1
    /\ Len(delivered[1].data) > 0
    /\ calls = 1

(***************************************************************************)
(* C8: producer and consumer never block each other for good: whenever a   *)
(* write_message call is in progress some step of the ring can be taken,   *)
(* and under fair scheduling every write_message call returns and every    *)
(* message written is read, for every slot_count from 1 up.                *)
(***************************************************************************)
RingStep ==
    \/ WriteStep(Producer)
    \/ \E c \in consumers : ReadCall(c) \/ ReadStep(c)

AllDone ==
    /\ calls = budget
    /\ pc[Producer] = "idle"
    /\ Len(delivered) = Len(wrote)

C8_NoDeadlock ==
    /\ [](pc[Producer] # "idle" => ENABLED RingStep)
    /\ [](\E c \in consumers : pc[c] \notin {"idle", "r_filled"}
             => ENABLED RingStep)
    /\ <>[]AllDone

\* write, read, write on a ring of one slot: all three calls returned true
C8_Witness ==
    /\ shm.hdr.slot_count = 1
    /\ SingleConsumer
    /\ Len(wrote) = 2
    /\ Len(delivered) = 1
    /\ calls = 2
    /\ pc[Producer] = "idle" /\ loc[Producer].ret = "true"
    /\ loc["C1"].ret = "true"

\* C9 (as stated): create_or_open(create = true) on a name whose region
\* already exists returns absence and leaves the region as it was: while
\* neither the owner nor its consumer has taken a step since the call began,
\* the region's size, header and slot bytes are those from before the call.
C9_Original ==
    ( /\ snap.taken
      /\ co[Intruder].result = "absent"
      /\ calls = snap.calls
      /\ Len(delivered) = snap.reads
      /\ pc[Producer] = snap.pc[Producer]
      /\ pc["C1"] = snap.pc["C1"] )
    => shm = snap.shm

\* C10 (as stated): a create_or_open(create = false) call that starts before
\* the owner has finished creating the ring does not return absence short of
\* its whole retry window.
C10_Original ==
    (pc["C1"] = "co_failed" /\ ~ co["C1"].ready)
    => co["C1"].tries = SemRetries

\* C10 (amended): one create_or_open(create = false) call retries only the
\* semaphore opens; the consumer's loop of calls is what rides out the race.
\* The loop gives up only after AttachRetries failed calls; a call that starts
\* once the owner's create_or_open has returned fails only when the region is
\* smaller than the size computed from the consumer's own slot_count and
\* slot_size; a handle is live only when the owner's creation is complete; and
\* the first message the attachee reads is the first message the owner wrote.
C10_AttachRace ==
    /\ pc["C1"] = "attach_failed" => co["C1"].attempts = AttachRetries
    /\ (pc["C1"] = "co_failed" /\ co["C1"].ready)
         => shm.size < MapSize(ConsumerSlotCount, ConsumerSlotSize)
    /\ (pc["C1"] = "co_failed" /\ co["C1"].tries > 0)
         => co["C1"].tries = SemRetries
    /\ handle["C1"].live => handle[Producer].live
    /\ Len(delivered) >= 1
         => (Len(wrote) >= 1 /\ delivered[1].data = wrote[1])

\* a call that began before the owner had finished returned a live handle
\* and the consumer has read the owner's first message through it
C10_Witness ==
    /\ co["C1"].result = "live"
    /\ ~ co["C1"].ready
    /\ Len(delivered) >= 1
    /\ delivered[1].data = wrote[1]

(***************************************************************************)
(* C11: create_or_open(create = false) on a valid region makes at most     *)
(* SemRetries attempts to open the three semaphores.  An attempt that      *)
(* finds all three returns a live handle at once; every other attempt      *)
(* counts, and the attempt that brings the count to SemRetries returns     *)
(* absence; the loop is left after finitely many steps.                    *)
(***************************************************************************)
SemsPresent == sems.free.exists /\ sems.filled.exists /\ sems.mutex.exists

C11_BoundedRetry ==
    /\ [](pc["C1"] = "co_sems" => co["C1"].tries < SemRetries)
    /\ [](co["C1"].tries <= SemRetries)
    /\ [][pc["C1"] = "co_sems" /\ co'["C1"] # co["C1"]
            => IF SemsPresent
                 THEN /\ handle'["C1"].live
                      /\ co'["C1"].result = "live"
                      /\ pc'["C1"] = "idle"
                 ELSE /\ co'["C1"].tries = co["C1"].tries + 1
                      /\ ~ handle'["C1"].live
                      /\ IF co'["C1"].tries = SemRetries
                           THEN /\ pc'["C1"] = "co_failed"
                                /\ co'["C1"].result = "absent"
                           ELSE pc'["C1"] = "co_sems"]_vars
    /\ [](pc["C1"] = "co_sems" => ENABLED SemTry("C1"))
    /\ (pc["C1"] = "co_sems") ~> (pc["C1"] \in {"idle", "co_failed"})

\* the call has returned absence after its last attempt found a semaphore
\* still missing
C11_Witness ==
    /\ pc["C1"] = "co_failed"
    /\ co["C1"].tries = SemRetries
    /\ sems.free.exists
    /\ ~ sems.mutex.exists

(***************************************************************************)
(* C12 (as stated): once create_or_open(create = false) has returned a     *)
(* live handle on the ring the owner created with (N, S), the attachee's   *)
(* slot_count_ and slot_size_ are N and S, so both sides compute the same  *)
(* slot address for every index.                                           *)
(***************************************************************************)
C12_Original ==
    (handle["C1"].live /\ handle[Producer].live)
        => /\ handle["C1"].slot_count_ = handle[Producer].slot_count_
           /\ handle["C1"].slot_size_ = handle[Producer].slot_size_
           /\ \A i \in 0..MaxSlotCount :
                 SlotOffset(i, handle["C1"].slot_size_)
                     = SlotOffset(i, handle[Producer].slot_size_)

(***************************************************************************)
(* C13: unlink_resources on a handle obtained with create = false changes  *)
(* nothing: the region name and the three semaphore names exist after it   *)
(* as before, a later create_or_open(create = false) is refused only for   *)
(* the region's size, and what is read afterwards is what was written.     *)
(***************************************************************************)
NamesPresent == shm.exists /\ SemsPresent

C13_AttacheeUnlink ==
    /\ [][\A c \in AllConsumers :
            (c \notin unlinked /\ c \in unlinked')
                => /\ ~ handle[c].owner_
                   /\ shm' = shm /\ sems' = sems
                   /\ handle' = handle /\ pc' = pc]_vars
    /\ [](NamesPresent)
    /\ [](pc["C2"] = "co_failed"
            => shm.size < MapSize(ConsumerSlotCount, ConsumerSlotSize))
    /\ [](\A i \in 1..Len(delivered) :
            /\ delivered[i].seq \in 1..Len(wrote)
            /\ delivered[i].data = wrote[delivered[i].seq])

\* after an attachee's unlink_resources another consumer has attached and
\* read a message the owner wrote
C13_Witness ==
    /\ co["C2"].result = "live"
    /\ "C1" \in co["C2"].after
    /\ handle[Producer].live
    /\ Len(delivered) >= 1
    /\ delivered[Len(delivered)].who = "C2"
    /\ Len(delivered[Len(delivered)].data) > 0

(***************************************************************************)
(* C14: once the owner's unlink_resources has returned, the region name    *)
(* and the three semaphore names are gone; until another process creates   *)
(* the name again, create_or_open(create = false) fails at shm_open, and   *)
(* no call begun after the owner's unlink_resources returns a live handle. *)
(***************************************************************************)
OwnerUnlinked ==
    /\ Producer \in unlinked
    /\ pc[Producer] = "idle"
    /\ pc[Intruder] = "idle" /\ co[Intruder].result = "none"

C14_OwnerUnlink ==
    /\ [](OwnerUnlinked
            => /\ ~ shm.exists
               /\ ~ sems.free.exists
               /\ ~ sems.filled.exists
               /\ ~ sems.mutex.exists)
    /\ [][(OwnerUnlinked /\ pc["C2"] = "co_open" /\ co'["C2"] # co["C2"])
            => /\ pc'["C2"] = "co_failed"
               /\ co'["C2"].result = "absent"
               /\ co'["C2"].tries = 0
               /\ ~ handle'["C2"].live]_vars
    /\ []((handle["C2"].live /\ Producer \in co["C2"].after)
            => co[Intruder].result \in {"live", "dropped"})

\* a call begun after the owner's unlink_resources has failed with no
\* semaphore attempt made, the name being gone
C14_Witness ==
    /\ OwnerUnlinked
    /\ pc["C2"] = "co_failed"
    /\ Producer \in co["C2"].after
    /\ co["C2"].tries = 0
    /\ co["C2"].attempts > 1

(***************************************************************************)
(* C15: dropping a handle removes no kernel name and changes neither the   *)
(* region nor the semaphores.  After the owner has dropped its handle      *)
(* without unlink_resources a create_or_open(create = false) still returns *)
(* a live handle (it is refused only for the region's size) with the       *)
(* header's geometry; filled still counts the unclaimed messages, and the  *)
(* attachee reads the messages the owner left, in their place.             *)
(***************************************************************************)
C15_DropKeepsNames ==
    /\ [][\A p \in Procs :
            (handle[p].live /\ ~ handle'[p].live)
                => shm' = shm /\ sems' = sems]_vars
    /\ [](shm.exists /\ sems.free.exists /\ sems.filled.exists
                     /\ sems.mutex.exists)
    /\ []((pc["C2"] = "co_failed" /\ ~ co["C2"].ready)
            => shm.size < MapSize(ConsumerSlotCount, ConsumerSlotSize))
    /\ []((co["C2"].result = "live" /\ ~ co["C2"].ready)
            => /\ handle["C2"].slot_count_ = shm.hdr.slot_count
               /\ handle["C2"].slot_size_ = shm.hdr.slot_size
               /\ handle["C2"].map_size_ = shm.size)
    /\ [](sems.filled.value = Unclaimed)
    /\ [](\A i \in 1..Len(delivered) :
            delivered[i].who = "C2"
                => /\ delivered[i].seq \in 1..Len(wrote)
                   /\ delivered[i].data = wrote[delivered[i].seq])

\* the owner wrote a message and dropped its handle without unlinking; a
\* consumer that attached afterwards has read that message
C15_Witness ==
    /\ ~ handle[Producer].live
    /\ Producer \notin unlinked
    /\ co["C2"].result = "live"
    /\ ~ co["C2"].ready
    /\ Len(delivered) = 1
    /\ delivered[1].who = "C2"
    /\ delivered[1].nw = 1
    /\ Len(delivered[1].data) > 0

(***************************************************************************)
(* C16: a zero-length payload is valid.  write_message(data, 0) is not     *)
(* refused, stores the length bytes 0 0 0 0 in its slot and leaves every   *)
(* other byte of the slot area as it was, and under fair scheduling        *)
(* returns true; the read of a slot whose length is 0 leaves out with 0    *)
(* bytes whatever out held before, and returns the empty message.          *)
(***************************************************************************)
C16_ZeroLength ==
    /\ [](loc[Producer].ret = "false" => loc[Producer].len # 0)
    /\ [][(pc[Producer] = "w_slot" /\ loc[Producer].len = 0
                                   /\ pc'[Producer] # "w_slot")
            => LET off == SlotOffset(shm.hdr.tail, handle[Producer].slot_size_)
               IN  /\ pc'[Producer] = "w_tail"
                   /\ Bytes(shm'.slots, off, LenPrefix) = <<0, 0, 0, 0>>
                   /\ \A j \in 1..Len(shm.slots) :
                        (j <= off \/ j > off + LenPrefix)
                            => shm'.slots[j] = shm.slots[j]]_vars
    /\ [][\A c \in consumers :
            (pc[c] = "r_slot" /\ pc'[c] # "r_slot"
               /\ Bytes(shm.slots,
                        SlotOffset(shm.hdr.head, handle[c].slot_size_),
                        LenPrefix) = <<0, 0, 0, 0>>)
                => pc'[c] = "r_head" /\ loc'[c].out = <<>>]_vars
    /\ [](\A i \in 1..Len(delivered) :
            wrote[delivered[i].seq] = <<>> => delivered[i].data = <<>>)
    /\ (pc[Producer] # "idle" /\ loc[Producer].len = 0)
          ~> (pc[Producer] = "idle" /\ loc[Producer].ret = "true")

\* an empty message has been read into a buffer that held the bytes of the
\* message before it
C16_Witness ==
    /\ Len(delivered) = 2
    /\ Len(delivered[1].data) > 0
    /\ wrote[2] = <<>>
    /\ delivered[2].data = <<>>
    /\ delivered[2].who = delivered[1].who

(***************************************************************************)
(* Discovery daemon: what a handled REGISTER has sent.                     *)
(***************************************************************************)
IsRegister(h) == Token(h.req, 1) = "REGISTER"

\* the record list holds a record with address c
HasRecord(vec, c) == \E i \in DOMAIN vec : vec[i].sock = c

\* the datagrams the sendto calls of h addressed to d, in order
SentTo(h, d) ==
    LET calls_d == SelectSeq(h.out, LAMBDA o : o.to = d)
    IN  [i \in DOMAIN calls_d |-> calls_d[i].msg]

\* the number of records of vec with address d
Records(vec, d) == Cardinality({i \in DOMAIN vec : vec[i].sock = d})

\* C17: once the daemon has handled REGISTER k c r from a client c that had
\* no record under k, the datagrams it sent to c are exactly PEER k p.sock
\* p.shm for each record p that was under k before, one each and in
\* registration order, and the records under k were then the earlier ones
\* followed by (c, r).
C17_NewClient ==
    \A j \in DOMAIN handled :
        LET h == handled[j]
            k == Token(h.req, 2)
            c == Token(h.req, 3)
            r == Token(h.req, 4)
        IN  (IsRegister(h) /\ h.done /\ ~ HasRecord(h.before, c)) =>
                /\ SentTo(h, c) =
                       [i \in DOMAIN h.before |->
                           <<"PEER", k, h.before[i].sock, h.before[i].shm>>]
                /\ h.after = Append(h.before, ClientInfo(c, r))

\* a consumer that registered under demo after the producer with ring /r1
\* has been sent PEER demo a /r1
C17_Witness ==
    \E j \in DOMAIN handled :
        /\ handled[j].done
        /\ handled[j].req = <<"REGISTER", "demo", "b", NoRing>>
        /\ handled[j].before = <<ClientInfo("a", "/r1")>>
        /\ SentTo(handled[j], "b") = << <<"PEER", "demo", "a", "/r1">> >>
        /\ handled[j].after = <<ClientInfo("a", "/r1"), ClientInfo("b", NoRing)>>

\* the sendto calls of h addressed to d whose datagram names c
Naming(h, d, c) ==
    Cardinality({i \in DOMAIN h.out :
                    h.out[i].to = d /\ Token(h.out[i].msg, 3) = c})

\* C18 as stated: after any earlier requests, a handled REGISTER k c r has
\* sent every other address with a record under k exactly one PEER naming c,
\* has sent c none naming c, and has sent nothing to an address without a
\* record under k.
C18_Original ==
    \A j \in DOMAIN handled :
        LET h == handled[j]
            c == Token(h.req, 3)
        IN  (IsRegister(h) /\ h.done) =>
                /\ \A d \in Clients \ {c} :
                       IF HasRecord(h.before, d)
                         THEN Naming(h, d, c) = 1
                         ELSE SentTo(h, d) = <<>>
                /\ Naming(h, c, c) = 0

\* C18: once the daemon has handled REGISTER k c r from a client c that had
\* no record under k, every other address has been sent PEER k c r once for
\* each record it had under k before and nothing else (so nothing at all
\* when its records are under other keys only), and c has been sent no
\* datagram naming c.
C18_Notify ==
    \A j \in DOMAIN handled :
        LET h == handled[j]
            k == Token(h.req, 2)
            c == Token(h.req, 3)
            r == Token(h.req, 4)
        IN  (IsRegister(h) /\ h.done /\ ~ HasRecord(h.before, c)) =>
                /\ \A d \in Clients \ {c} :
                       SentTo(h, d) =
                           [i \in 1..Records(h.before, d) |-> <<"PEER", k, c, r>>]
                /\ Naming(h, c, c) = 0

\* consumer c registered under demo after consumer b (under demo) and the
\* producer (under other): b has been sent one PEER naming c, the producer
\* nothing, and c the record of b only
C18_Witness ==
    \E j \in DOMAIN handled :
        /\ handled[j].done
        /\ handled[j].req = <<"REGISTER", "demo", "c", NoRing>>
        /\ handled[j].before = <<ClientInfo("b", NoRing)>>
        /\ registry["other"] = <<ClientInfo("a", "/r1")>>
        /\ SentTo(handled[j], "b") = << <<"PEER", "demo", "c", NoRing>> >>
        /\ SentTo(handled[j], "a") = <<>>
        /\ SentTo(handled[j], "c") = << <<"PEER", "demo", "b", NoRing>> >>

\* the record list holds the record (a, r)
Holds(vec, a, r) == \E i \in DOMAIN vec : vec[i] = ClientInfo(a, r)

\* C19: once the daemon has handled DEREGISTER k a r while (a, r) was a
\* record under k, the record is gone: it is not under k when the handling
\* ends, and as long as a does not register under k again a REGISTER under
\* k handled later sends its client no PEER k a r and sends a nothing.
C19_Original ==
    \A j \in DOMAIN handled :
        LET h == handled[j]
            k == Token(h.req, 2)
            a == Token(h.req, 3)
            r == Token(h.req, 4)
        IN  (Token(h.req, 1) = "DEREGISTER" /\ Holds(h.before, a, r)) =>
                /\ ~ Holds(h.after, a, r)
                /\ \A i \in DOMAIN handled :
                       LET g == handled[i]
                       IN  ( /\ i > j
                             /\ IsRegister(g)
                             /\ Token(g.req, 2) = k
                             /\ \A m \in j..i : ~ (IsRegister(handled[m]) /\
                                                  Token(handled[m].req, 2) = k /\
                                                  Token(handled[m].req, 3) = a) )
                           => /\ \A n \in DOMAIN g.out :
                                     g.out[n].msg # <<"PEER", k, a, r>>
                              /\ SentTo(g, a) = <<>>

\* the address of the sendto the daemon is at, "" when it is at none
SendDest ==
    LET vec == registry[bk.key]
    IN  IF bk.pc = "reply" /\ bk.i <= Len(vec)
          THEN bk.client_sock
          ELSE IF /\ bk.pc = "notify"
                  /\ bk.i <= Len(vec)
                  /\ vec[bk.i].sock # bk.client_sock
                 THEN vec[bk.i].sock
                 ELSE ""

\* the client never calls recvfrom (again): a producer, or a consumer in
\* its read_message loop
NeverReads(d) == d \in ProducerSocks \/ cst[d] = "reading"

\* the daemon waits in a sendto for room in the queue of d
BlockedOn(d) == SendDest = d /\ ~ CanSend(d)

\* C20: the daemon never waits in a sendto of a REGISTER for a client that
\* does not read its socket and whose datagram queue is full.
C20_Original == \A d \in Clients : ~ (BlockedOn(d) /\ NeverReads(d))

(***************************************************************************)
(* Slots and the messages they hold.                                       *)
(***************************************************************************)
\* the messages stored by a write_message that no read_message has copied
\* out yet, as positions in the order of writing
NotCopied == (ReadsTaken + 1)..Len(written)

\* the slot the k-th stored message went to: tail starts at 0 and advances
\* by one per message
SlotOf(k) == (k - 1) % shm.hdr.slot_count

\* the bytes write_message stores for payload m: length prefix, then m
SlotImage(m) == LenBytes(Len(m)) \o m

InSection ==
    {p \in Procs : pc[p] \in {"w_slot", "w_tail", "w_post_mutex",
                              "r_slot", "r_head", "r_post_mutex"}}

\* C22: at most one process is between its wait on mutex and its post of
\* mutex, the value of mutex is 1 when no process is there and 0 when one
\* is, and every step that changes head or tail is a step of the process
\* that is there.
C22_Mutex ==
    /\ [](/\ Cardinality(InSection) <= 1
          /\ sems.mutex.value = 1 - Cardinality(InSection))
    /\ [][(shm'.hdr.head # shm.hdr.head \/ shm'.hdr.tail # shm.hdr.tail)
            => \E p \in InSection : pc'[p] # pc[p]]_vars

\* a consumer holds the mutex, about to write head, while the producer
\* waits for it
C22_Witness ==
    /\ consumers = {"C1", "C2"}
    /\ pc[Producer] = "w_mutex"
    /\ \E c \in consumers : pc[c] = "r_head"
    /\ sems.mutex.value = 0
    /\ shm.hdr.tail # shm.hdr.head

\* no write_message or read_message call is past its first wait: the
\* producer is between calls or waits on free, every consumer is between
\* calls or waits on filled
Quiet ==
    /\ pc[Producer] \in {"idle", "w_free"}
    /\ \A c \in consumers : pc[c] \in {"idle", "r_filled"}

\* C23 as stated: when no call is in progress, the number of messages
\* written and not read equals the value of filled and equals
\* (tail - head) mod slot_count, at every fill level 0..slot_count.
C23_Original ==
    Quiet =>
        /\ Unread = sems.filled.value
        /\ Unread = (shm.hdr.tail - shm.hdr.head) % shm.hdr.slot_count

\* C23: when no call is in progress, the number of messages written and not
\* read lies in 0..slot_count and equals the value of filled, and
\* (tail - head) mod slot_count equals that number mod slot_count: the
\* number itself below slot_count, and 0 when the ring is full.
C23_FillLevel ==
    Quiet =>
        /\ Unread \in 0..shm.hdr.slot_count
        /\ Unread = sems.filled.value
        /\ (shm.hdr.tail - shm.hdr.head) % shm.hdr.slot_count
               = Unread % shm.hdr.slot_count

\* the ring of two slots is full after its indices have wrapped: two
\* messages unread, tail = head
C23_Witness ==
    /\ Quiet
    /\ shm.hdr.slot_count = 2
    /\ Len(delivered) = 1
    /\ Unread = 2
    /\ sems.filled.value = 2
    /\ shm.hdr.tail = shm.hdr.head

\* the calls in progress that have taken a token from free or from filled
\* and have not yet posted the other semaphore
Holders ==
    {p \in Procs :
        pc[p] \in {"w_mutex", "w_slot", "w_tail", "w_post_mutex",
                   "w_post_filled", "r_mutex", "r_slot", "r_head",
                   "r_post_mutex", "r_post_free"}}

\* C24: the values of free and filled, the calls in progress that hold a
\* token, and the calls that returned false while they held one add up to
\* slot_count; so free + filled never exceeds slot_count, and
\* free = slot_count - filled whenever no call holds a token and no wait has
\* failed.
C24_Tokens ==
    /\ sems.free.value >= 0
    /\ sems.filled.value >= 0
    /\ sems.free.value + sems.filled.value + Cardinality(Holders)
           + failed.free + failed.filled = shm.hdr.slot_count
    /\ sems.free.value + sems.filled.value <= shm.hdr.slot_count
    /\ (Quiet /\ failed.count = 0) =>
           sems.free.value = shm.hdr.slot_count - sems.filled.value

\* a read_message returned false after its wait on mutex failed: no call is
\* in progress and free + filled is one short of slot_count for good
C24_Witness ==
    /\ Quiet
    /\ failed.filled = 1
    /\ shm.hdr.slot_count = 2
    /\ Len(delivered) = 1
    /\ sems.free.value + sems.filled.value = 1

\* C25: while the region the owner created and initialised exists, head and
\* tail lie in 0 .. slot_count - 1, magic is 0xA1B2C3D4, and slot_count and
\* slot_size are the values the owner wrote at creation.
C25_Original ==
    (shm.exists /\ handle[Producer].live /\ handle[Producer].owner_) =>
        /\ shm.hdr.head \in 0..(shm.hdr.slot_count - 1)
        /\ shm.hdr.tail \in 0..(shm.hdr.slot_count - 1)
        /\ shm.hdr.magic = Magic
        /\ shm.hdr.slot_count = handle[Producer].slot_count_
        /\ shm.hdr.slot_size = handle[Producer].slot_size_

\* the next index after i on the ring
Succ(i) == (i + 1) % shm.hdr.slot_count

\* C26: no step of write_message changes head, and its only step to change
\* tail is the store of line 223, which advances tail by one modulo
\* slot_count; no step of read_message changes tail or any slot byte, and
\* its only step to change head is the store of line 247, which advances
\* head by one modulo slot_count.  A call that returns true has taken that
\* step exactly once.
C26_Frame ==
    /\ [][/\ pc'[Producer] # pc[Producer] =>
                /\ shm'.hdr.head = shm.hdr.head
                /\ pc[Producer] # "w_tail" => shm'.hdr.tail = shm.hdr.tail
                /\ pc[Producer] = "w_tail" =>
                       shm'.hdr.tail = Succ(shm.hdr.tail)
          /\ \A c \in consumers :
                pc'[c] # pc[c] =>
                    /\ shm'.hdr.tail = shm.hdr.tail
                    /\ shm'.slots = shm.slots
                    /\ pc[c] # "r_head" => shm'.hdr.head = shm.hdr.head
                    /\ pc[c] = "r_head" =>
                           shm'.hdr.head = Succ(shm.hdr.head)]_vars
    /\ [](/\ pc[Producer] \in {"w_post_mutex", "w_post_filled"} =>
                shm.hdr.tail = Succ(loc[Producer].idx)
          /\ \A c \in consumers :
                pc[c] = "r_post_mutex" => shm.hdr.head = Succ(loc[c].idx))

\* a read_message has advanced head from the last slot back to 0 while tail
\* stays at 1
C26_Witness ==
    /\ shm.hdr.slot_count = 2
    /\ \E c \in consumers :
          /\ pc[c] = "r_post_mutex"
          /\ loc[c].idx = 1
    /\ shm.hdr.head = 0
    /\ shm.hdr.tail = 1

\* C27: a write_message whose wait on free succeeded and whose wait on
\* mutex then fails returns false.  Its wait on free took one token and
\* changed nothing else, the failing wait changes neither the region (head,
\* tail, slots) nor any semaphore, and nothing is posted back: as long as
\* no read_message has been called, free is slot_count less the writes that
\* returned true less the failed call, filled is the number of writes that
\* returned true, mutex is 1, head is 0 and tail is where the last
\* successful write left it.
C27_MutexFail ==
    /\ [][/\ (pc[Producer] = "w_free" /\ pc'[Producer] = "w_mutex") =>
                /\ sems' = [sems EXCEPT !.free.value = @ - 1]
                /\ shm' = shm
          /\ (pc[Producer] = "w_mutex" /\ pc'[Producer] = "idle") =>
                /\ loc'[Producer].ret = "false"
                /\ shm' = shm
                /\ sems' = sems
                /\ wrote' = wrote
                /\ failed'.free = failed.free + 1]_vars
    /\ []((/\ pc[Producer] = "idle"
           /\ pc["C1"] = "idle"
           /\ delivered = <<>>
           /\ failed.filled = 0) =>
              /\ sems.free.value
                     = shm.hdr.slot_count - Len(wrote) - failed.free
              /\ sems.filled.value = Len(wrote)
              /\ sems.mutex.value = 1
              /\ shm.hdr.head = 0
              /\ shm.hdr.tail = Len(wrote) % shm.hdr.slot_count)

\* after one write returned true, a second write_message took a free token
\* and returned false at its wait on mutex: free is 0 on a ring of two
\* slots that holds one message
C27_Witness ==
    /\ pc[Producer] = "idle"
    /\ pc["C1"] = "idle"
    /\ delivered = <<>>
    /\ loc[Producer].ret = "false"
    /\ loc[Producer].len <= handle[Producer].slot_size_
    /\ failed.free = 1
    /\ shm.hdr.slot_count = 2
    /\ Len(wrote) = 1
    /\ sems.free.value = 0
    /\ sems.filled.value = 1
    /\ shm.hdr.tail = 1

(***************************************************************************)
(* C28: when no create_or_open and no unlink_resources call is in          *)
(* progress, the region name and the three semaphore names either all      *)
(* exist or are all absent; a create_or_open(create = true) that returned  *)
(* absence has left none of the names behind.                              *)
(***************************************************************************)
NoCallRunning ==
    /\ pc[Producer] = "idle"
    /\ pc[Intruder] \in {"idle", "co_failed"}

NamesAbsent ==
    /\ ~ shm.exists
    /\ ~ sems.free.exists
    /\ ~ sems.filled.exists
    /\ ~ sems.mutex.exists

C28_Original == NoCallRunning => (NamesPresent \/ NamesAbsent)

(***************************************************************************)
(* C29: for every live handle, owner or attachee, the ring the header      *)
(* describes, sizeof(header) + slot_count * (4 + slot_size), fits in the   *)
(* bytes that handle mapped, and the slot a handle addresses through tail  *)
(* or head lies inside its mapping, whatever create_or_open calls have     *)
(* been made on the name since.                                            *)
(***************************************************************************)
\* the part of the slot area process p touches when it is at the slot copy
SlotEnd(p) ==
    SlotOffset(IF pc[p] = "w_slot" THEN shm.hdr.tail ELSE shm.hdr.head,
               handle[p].slot_size_)
      + LenPrefix + handle[p].slot_size_

C29_Original ==
    \A p \in Procs :
        handle[p].live
            => /\ MapSize(shm.hdr.slot_count, shm.hdr.slot_size)
                    <= handle[p].map_size_
               /\ pc[p] \in {"w_slot", "r_slot"}
                    => HeaderSize + SlotEnd(p) <= handle[p].map_size_

(***************************************************************************)
(* C30: unlink_resources removes only names the calling handle created:    *)
(* once the first owner's unlink_resources has returned and a successor    *)
(* has created the region and the three semaphores again under the same    *)
(* name, no later step of the first owner removes any of them.             *)
(***************************************************************************)
\* The first owner's unlink_resources has returned and the successor holds
\* a live handle with all four names present.  The owner's shm_unlink came
\* last, so a region name present now was created after it, and the
\* successor is live only by having created each semaphore exclusively.
SuccessorRing ==
    /\ Producer \in unlinked
    /\ pc[Producer] = "idle"
    /\ handle[Intruder].live
    /\ handle[Intruder].owner_
    /\ NamesPresent

C30_Original == [][SuccessorRing => NamesPresent']_vars

(***************************************************************************)
(* C31: create_or_open(name, n, s, false) returns absence at its size test *)
(* whenever the region is smaller than sizeof(header) + n * (4 + s) for    *)
(* the requested n and s, and passes the size test, mapping the whole      *)
(* region, whenever the region is at least that large.                     *)
(***************************************************************************)
AtSizeTest(p) == pc[p] = "co_size" /\ ~ co[p].create

Requested(p) == MapSize(handle[p].slot_count_, handle[p].slot_size_)

C31_TooSmall ==
    [][\A p \in AllConsumers :
         (AtSizeTest(p) /\ pc'[p] # pc[p])
            => IF shm.size < Requested(p)
                 THEN /\ pc'[p] = "co_failed"
                      /\ co'[p].result = "absent"
                      /\ ~ handle'[p].live
                 ELSE /\ pc'[p] = "co_check"
                      /\ handle'[p].map_size_ = shm.size]_vars

\* one call has passed the size test on a region of exactly the requested
\* size, and another, begun on a ready ring, has returned absence
C31_Witness ==
    /\ pc["C1"] = "co_check"
    /\ shm.size = Requested("C1")
    /\ handle["C1"].map_size_ = shm.size
    /\ pc["C2"] = "co_failed"
    /\ co["C2"].ready
    /\ co["C2"].result = "absent"

(***************************************************************************)
(* C32: the producer sends REGISTER only once create_or_open(create =      *)
(* true) has returned a live handle; whenever a REGISTER, a record or a    *)
(* PEER carries the producer's ring name, the header is initialised and    *)
(* the three semaphores exist, and every attach the consumer makes on a    *)
(* discovered name has begun on a ring that was fully created.             *)
(***************************************************************************)
FullyCreated ==
    /\ handle[Producer].live
    /\ shm.exists
    /\ shm.size = MapSize(Slots, SlotSz)
    /\ shm.hdr.magic = Magic
    /\ shm.hdr.slot_count = Slots
    /\ shm.hdr.slot_size = SlotSz
    /\ SemsPresent

\* the ring name r is in a datagram on its way to the daemon, in a record of
\* the daemon, in the REGISTER the daemon is handling, or in a datagram a
\* client has been sent
Published(r) ==
    \/ \E i \in DOMAIN dq : Token(dq[i], 4) = r
    \/ \E k \in Keys : \E i \in DOMAIN registry[k] : registry[k][i].shm = r
    \/ bk.shm = r
    \/ \E c \in AppClients : \E i \in DOMAIN inbox[c] : Token(inbox[c][i], 4) = r

C32_Discovery ==
    /\ cst["a"] = "registered" => FullyCreated
    /\ Published(ShmOf("a")) => FullyCreated
    /\ cst["b"] = "attach" => FullyCreated
    /\ pc["C1"] \in {"co_open", "co_size", "co_check", "co_adopt_count",
                     "co_adopt_size", "co_sems"} => co["C1"].ready

\* the consumer has received a PEER with the producer's ring name, has
\* attached to the ring and has read a message from it
C32_Witness ==
    /\ cst["b"] = "attach"
    /\ handle["C1"].live
    /\ Len(delivered) >= 1
    /\ delivered[1].who = "C1"

(***************************************************************************)
(* C33 as stated: every PEER record with a ring name that the consumer is  *)
(* sent leads to the consumer attaching to that ring, also a PEER for a    *)
(* second producer that arrives after the consumer has attached to a       *)
(* first ring.                                                             *)
(***************************************************************************)
\* a PEER naming ring r waits in the consumer's socket
Queued(r) ==
    \E i \in DOMAIN inbox["b"] :
        Token(inbox["b"][i], 1) = "PEER" /\ Token(inbox["b"][i], 4) = r

\* the consumer holds a handle on ring r
AttachedTo(r) ==
    IF r = ShmOf("a") THEN cst["b"] = "attach" /\ handle["C1"].live
    ELSE cst["b"] = "other"

Sends(c, cmd) ==
    Cardinality({i \in DOMAIN dq :
                    Token(dq[i], 1) = cmd /\ Token(dq[i], 3) = c})
  + Cardinality({i \in DOMAIN handled :
                    Token(handled[i].req, 1) = cmd
                    /\ Token(handled[i].req, 3) = c})

SendsOnce(c) ==
    /\ Sends(c, "REGISTER") = (IF cst[c] = "start" THEN 0 ELSE 1)
    /\ Sends(c, "DEREGISTER") <= 1
    /\ cst[c] = "gone" => Sends(c, "DEREGISTER") = 1

DeregisterFirst == Producer \in unlinked => Sends("a", "DEREGISTER") = 1

C34_Original == SendsOnce("a") /\ SendsOnce("b") /\ DeregisterFirst

(***************************************************************************)
(* C35 as stated: once the owner has called unlink_resources and dropped   *)
(* its handle, an attachee that waits in read_message, or calls it later,  *)
(* eventually gets false from it.                                          *)
(***************************************************************************)
OwnerGone ==
    /\ Producer \in unlinked
    /\ ~ handle[Producer].live
    /\ NamesAbsent

C35_Original ==
    \A c \in AllConsumers :
        (OwnerGone /\ pc[c] = "r_filled") ~> (loc[c].ret = "false")

(***************************************************************************)
(* C36: a semaphore wait of write_message or read_message that a signal    *)
(* interrupts is tried again.  The interruption leaves the call where it   *)
(* was, with head, tail, the slots and the semaphores as they were, so the *)
(* call goes on as it would have without it; a call returns false from a   *)
(* wait only when the wait failed with another error, and every such error *)
(* makes the call return false at once; and as long as no wait has failed  *)
(* with another error no token is missing and no message is lost, however  *)
(* many waits were interrupted.                                            *)
(***************************************************************************)
C36_Retry ==
    /\ [][failed'.intr # failed.intr =>
              /\ shm' = shm /\ sems' = sems
              /\ pc' = pc /\ loc' = loc
              /\ failed'.count = failed.count]_vars
    /\ [][\A p \in Procs :
              (AtWait(p) /\ pc'[p] = "idle") =>
                  /\ loc'[p].ret = "false"
                  /\ failed'.count = failed.count + 1]_vars
    /\ [][failed'.count # failed.count =>
              \E p \in Procs :
                  /\ AtWait(p)
                  /\ pc'[p] = "idle"
                  /\ loc'[p].ret = "false"
                  /\ shm' = shm /\ sems' = sems]_vars
    /\ [](failed.count = 0 =>
              /\ sems.free.value + sems.filled.value + Cardinality(Holders)
                     = shm.hdr.slot_count
              /\ IsPrefix(DataOf(delivered), wrote)
              /\ Len(wrote) - Len(delivered) <= shm.hdr.slot_count)

\* a wait was interrupted, no wait failed otherwise, and the message written
\* has been read back with every token returned
C36_Witness ==
    /\ failed.intr = MaxIntr
    /\ failed.count = 0
    /\ Quiet
    /\ Len(wrote) >= 1
    /\ DataOf(delivered) = wrote
    /\ sems.free.value = shm.hdr.slot_count

\* create_or_open has derived the names of ring k
Derived(k) == named[k].shm_name_ # <<>>

\* nm is '/', then the characters of body, then suffix
Spelled(nm, body, suffix) ==
    /\ Len(nm) = 1 + Len(body) + Len(suffix)
    /\ nm[1] = "/"
    /\ \A i \in 1..Len(body) : nm[1 + i] = body[i]
    /\ \A i \in 1..Len(suffix) : nm[1 + Len(body) + i] = suffix[i]

\* C37 as stated: for a ring name R that begins with '/', the semaphore
\* names are that '/' followed by the rest of R with every '/' replaced by
\* '_', followed by _free, _filled and _mutex.
C37_Original ==
    \A k \in RingIds :
        (Derived(k) /\ named[k].name[1] = "/") =>
            LET rest == Underscored(Tail(named[k].name))
            IN /\ Spelled(named[k].sem_free_name_, rest, FreeSuffix)
               /\ Spelled(named[k].sem_filled_name_, rest, FilledSuffix)
               /\ Spelled(named[k].sem_mutex_name_, rest, MutexSuffix)

(***************************************************************************)
(* C37: for a ring name R the semaphore names are '/' followed by R with   *)
(* every '/' replaced by '_', the leading one included, followed by _free, *)
(* _filled and _mutex: each name is one character longer than R plus its   *)
(* suffix, its only '/' is the first character, and a name R that begins   *)
(* with '/' gives names that begin with "/_".  R = /r1 gives /_r1_free,    *)
(* /_r1_filled and /_r1_mutex.  The region keeps the name R.               *)
(***************************************************************************)
C37_Names ==
    \A k \in RingIds :
        Derived(k) =>
            LET R == named[k].name
                all == [i \in 1..Len(R) |-> IF R[i] = "/" THEN "_" ELSE R[i]]
                nms == {named[k].sem_free_name_, named[k].sem_filled_name_,
                        named[k].sem_mutex_name_}
            IN /\ named[k].shm_name_ = R
               /\ Spelled(named[k].sem_free_name_, all, FreeSuffix)
               /\ Spelled(named[k].sem_filled_name_, all, FilledSuffix)
               /\ Spelled(named[k].sem_mutex_name_, all, MutexSuffix)
               /\ \A nm \in nms : \A i \in 2..Len(nm) : nm[i] # "/"
               /\ R[1] = "/" => \A nm \in nms : nm[2] = "_"

\* the names of the ring /r1 have been derived
C37_Witness ==
    \E k \in RingIds :
        /\ named[k].shm_name_ = <<"/", "r", "1">>
        /\ named[k].sem_free_name_ =
               <<"/", "_", "r", "1", "_", "f", "r", "e", "e">>
        /\ named[k].sem_filled_name_ =
               <<"/", "_", "r", "1", "_", "f", "i", "l", "l", "e", "d">>
        /\ named[k].sem_mutex_name_ =
               <<"/", "_", "r", "1", "_", "m", "u", "t", "e", "x">>

\* the semaphore names of ring k
SemNames(k) ==
    {named[k].sem_free_name_, named[k].sem_filled_name_,
     named[k].sem_mutex_name_}

\* the number of '/' characters name begins with
LeadingSlashes(name) ==
    Cardinality({i \in 1..Len(name) : \A j \in 1..i : name[j] = "/"})

\* the object shm_open(shm_name_.c_str(), ...) names on Linux: leading '/'
\* characters do not count
RegionOf(name) == SubSeq(name, LeadingSlashes(name) + 1, Len(name))

\* shm_open accepts name on Linux: something follows the leading '/'
\* characters and holds no '/'
Usable(name) ==
    /\ RegionOf(name) # <<>>
    /\ \A i \in 1..Len(RegionOf(name)) : RegionOf(name)[i] # "/"

\* C38: two rings with different region names have no semaphore name in
\* common, and the three semaphore names of one ring differ from each other.
C38_Original ==
    /\ \A k \in RingIds : Derived(k) => Cardinality(SemNames(k)) = 3
    /\ \A j, k \in RingIds :
           (/\ Derived(j) /\ Derived(k)
            /\ Usable(named[j].shm_name_) /\ Usable(named[k].shm_name_)
            /\ RegionOf(named[j].shm_name_) # RegionOf(named[k].shm_name_)) =>
               SemNames(j) \cap SemNames(k) = {}

\* C39: the SharedRing of src/ipc/shared_ring.cpp and the one of
\* src/unnamed/part_001 agree on every write_message and read_message call
\* made on the same ring with the same input and no semaphore operation
\* failing: the same boolean is returned and head, tail, the slots and the
\* three semaphore values are left the same.
C39_Original ==
    (twin.op # "none" /\ ~twin.fail) =>
        /\ twin.a.ret = twin.b.ret
        /\ twin.a.out = twin.b.out
        /\ twin.a.ring.shm.hdr = twin.b.ring.shm.hdr
        /\ twin.a.ring.shm.slots = twin.b.ring.shm.slots
        /\ twin.a.ring.sems = twin.b.ring.sems

\* the values pushed so far, in push order
Pushed == [i \in 1..thr.producer |-> i - 1]

\* C40: with one thread pushing and one popping in any interleaving, the
\* values popped are the values pushed, in push order, none lost and none
\* twice; and a pop returns false and leaves the buffer as it was exactly
\* when no pushed value is unread.
C40_Original ==
    /\ [](IsPrefix(thr.popped, Pushed))
    /\ [][thr'.consumer # thr.consumer =>
              ((thr'.popped = thr.popped /\ circ' = circ)
                  <=> Len(thr.popped) = thr.producer)]_vars

====
